---------------------------- MODULE Spec2Model ----------------------------
(***************************************************************************)
(* The command validation pipeline of ai-command-auditor                   *)
(* (src/scripts/python/core): sanitizer, security gate, rule engine,       *)
(* oracle adapter and the orchestrator check_command, driven by main.      *)
(*                                                                         *)
(* A Python str is a sequence of code points; the model keeps the ASCII    *)
(* range 0..127.  A regular expression is an ordered sequence of           *)
(* alternatives, an alternative is a sequence of items, and an item is a   *)
(* character class with a greedy quantifier (one, ?, *, +): the fragment   *)
(* of Python's re every pattern of the repository is written in.           *)
(***************************************************************************)
EXTENDS Integers, Sequences, FiniteSets, TLC

\* ------------------------------------------------------------ characters

\* The printable ASCII characters, code points 32..126 in order.  The grave
\* accent (96) cannot stand in a string of this notation and is spelled out.
Ascii ==
  <<" ", "!", "\"", "#", "$", "%", "&", "'", "(", ")", "*", "+", ",", "-", ".", "/",
    "0", "1", "2", "3", "4", "5", "6", "7", "8", "9", ":", ";", "<", "=", ">", "?",
    "@", "A", "B", "C", "D", "E", "F", "G", "H", "I", "J", "K", "L", "M", "N", "O",
    "P", "Q", "R", "S", "T", "U", "V", "W", "X", "Y", "Z", "[", "\\", "]", "^", "_",
    "BACKTICK", "a", "b", "c", "d", "e", "f", "g", "h", "i", "j", "k", "l", "m", "n", "o",
    "p", "q", "r", "s", "t", "u", "v", "w", "x", "y", "z", "{", "|", "}", "~">>

\* ord(c) of a printable character.
Ord(c) == 31 + CHOOSE i \in 1..Len(Ascii) : Ascii[i] = c

\* A function over 1..n as the explicit tuple of its values.
Tuple(f) == <<>> \o f

\* A str literal, written as a tuple of its characters.
Str(t) == Tuple([i \in 1..Len(t) |-> Ord(t[i])])

\* The control characters the sanitizer and the gate name.
NUL == 0
SOH == 1
LF == 10
VT == 11
CR == 13
DEL == 127

\* Every code point of the model.
Char == 0..127

\* str.isspace() on the ASCII range, which is also the class \s of re for a
\* str pattern: TAB LF VT FF CR, FS GS RS US, SPACE.
Whitespace == (9..13) \cup (28..32)

\* The class [\x00-\x08\x0b\x0c\x0e-\x1f\x7f] of sanitize_command.
ControlClass == (0..8) \cup {11, 12} \cup (14..31) \cup {127}

\* The class . of re: any character but the line feed.
Dot == Char \ {LF}

Letters == Ord("a")..Ord("z")

\* str.upper() / str.lower() of one code point.
UpperChar(c) == IF c \in Letters THEN c - 32 ELSE c
LowerChar(c) == IF c \in Ord("A")..Ord("Z") THEN c + 32 ELSE c

\* ------------------------------------------------------ regular expressions

One(cls) == [cls |-> cls, min |-> 1, many |-> FALSE]
Opt(cls) == [cls |-> cls, min |-> 0, many |-> FALSE]
Star(cls) == [cls |-> cls, min |-> 0, many |-> TRUE]
Plus(cls) == [cls |-> cls, min |-> 1, many |-> TRUE]

\* A literal run of characters.
Lit(t) == Tuple([i \in 1..Len(t) |-> One({Ord(t[i])})])

\* The same items under re.IGNORECASE: each class closed under case.
IgnoreCase(items) ==
  Tuple([i \in 1..Len(items) |->
           [items[i] EXCEPT !.cls = {UpperChar(c) : c \in @} \cup {LowerChar(c) : c \in @}
                                      \cup @]])

MaxOf(S) == CHOOSE n \in S : \A m \in S : m <= n
MinOf(S) == CHOOSE n \in S : \A m \in S : n <= m

\* How many characters of s, from position j on, lie in cls consecutively.
Run(cls, s, j) ==
  MaxOf({n \in 0..(Len(s) + 1 - j) : \A i \in 0..(n - 1) : s[j + i] \in cls})

\* The position after the match of items[k..] that starts at position j of s,
\* found in the order a backtracking matcher tries them: a greedy quantifier
\* takes as many characters as it can and gives them back one by one while
\* the rest fails (TryReps); 0 when there is no match.
RECURSIVE MatchEnd(_, _, _, _), TryReps(_, _, _, _, _)
MatchEnd(items, k, s, j) ==
  IF k > Len(items) THEN j
  ELSE LET it == items[k]
           run == Run(it.cls, s, j)
           hi == IF it.many THEN run ELSE IF run >= 1 THEN 1 ELSE 0
       IN TryReps(items, k, s, j, hi)

TryReps(items, k, s, j, n) ==
  IF n < items[k].min THEN 0
  ELSE LET e == MatchEnd(items, k + 1, s, j + n)
       IN IF e # 0 THEN e ELSE TryReps(items, k, s, j, n - 1)

\* The match of a regular expression at position j: its first alternative,
\* in order, that matches there.
RECURSIVE AltEnd(_, _, _, _)
AltEnd(alts, a, s, j) ==
  IF a > Len(alts) THEN 0
  ELSE LET e == MatchEnd(alts[a], 1, s, j)
       IN IF e # 0 THEN e ELSE AltEnd(alts, a + 1, s, j)

\* re.search(pattern, s) is not None.
Search(alts, s) == \E j \in 1..(Len(s) + 1) : AltEnd(alts, 1, s, j) # 0

\* re.sub(pattern, repl, s) for a template repl without group references,
\* from position pos on.  After an empty match the next match must advance.
RECURSIVE SubFrom(_, _, _, _, _)
SubFrom(alts, repl, s, pos, mustAdvance) ==
  LET ends == [i \in pos..(Len(s) + 1) |-> AltEnd(alts, 1, s, i)]
      starts == {i \in pos..(Len(s) + 1) :
                   ends[i] # 0 /\ ~(mustAdvance /\ i = pos /\ ends[i] = i)}
  IN IF starts = {} THEN SubSeq(s, pos, Len(s))
     ELSE LET i == MinOf(starts)
              e == ends[i]
          IN SubSeq(s, pos, i - 1) \o repl \o SubFrom(alts, repl, s, e, e = i)

ReSub(alts, repl, s) == SubFrom(alts, repl, s, 1, FALSE)

\* str.strip(): drop the leading and the trailing whitespace.
Strip(s) ==
  LET keep == {i \in 1..Len(s) : s[i] \notin Whitespace}
  IN IF keep = {} THEN <<>> ELSE SubSeq(s, MinOf(keep), MaxOf(keep))

\* ---------------------------------------------------------- pattern library

\* The code points c1..c2 of a class range [c1-c2].
Range(c1, c2) == Ord(c1)..Ord(c2)

\* CommandValidator.dangerous_patterns, compiled: the source text of each
\* pattern (pattern.pattern) and its alternatives.
dangerous_patterns ==
  <<
    [pattern |-> "rm\\s+-r[f]*\\s+/",
     alts |-> <<Lit(<<"r", "m">>) \o <<Plus(Whitespace)>> \o Lit(<<"-", "r">>) \o <<Star({Ord("f")}), Plus(Whitespace)>> \o Lit(<<"/">>)>>],
    [pattern |-> "rm\\s+-[rf]*r[f]*\\s+/",
     alts |-> <<Lit(<<"r", "m">>) \o <<Plus(Whitespace)>> \o Lit(<<"-">>) \o <<Star(({Ord("r")} \cup {Ord("f")}))>> \o Lit(<<"r">>) \o <<Star({Ord("f")}), Plus(Whitespace)>> \o Lit(<<"/">>)>>],
    [pattern |-> ":\\(\\)\\s*\\{\\s*:\\s*\\|\\s*:\\s*&\\s*\\}\\s*;:\\s*",
     alts |-> <<Lit(<<":", "(", ")">>) \o <<Star(Whitespace)>> \o Lit(<<"{">>) \o <<Star(Whitespace)>> \o Lit(<<":">>) \o <<Star(Whitespace)>> \o Lit(<<"|">>) \o <<Star(Whitespace)>> \o Lit(<<":">>) \o <<Star(Whitespace)>> \o Lit(<<"&">>) \o <<Star(Whitespace)>> \o Lit(<<"}">>) \o <<Star(Whitespace)>> \o Lit(<<";", ":">>) \o <<Star(Whitespace)>>>>],
    [pattern |-> "cat\\s+/dev/random",
     alts |-> <<Lit(<<"c", "a", "t">>) \o <<Plus(Whitespace)>> \o Lit(<<"/", "d", "e", "v", "/", "r", "a", "n", "d", "o", "m">>)>>],
    [pattern |-> "dd\\s+if=/dev/zero",
     alts |-> <<Lit(<<"d", "d">>) \o <<Plus(Whitespace)>> \o Lit(<<"i", "f", "=", "/", "d", "e", "v", "/", "z", "e", "r", "o">>)>>],
    [pattern |-> ">\\s*/dev/sd[a-z][0-9]*",
     alts |-> <<Lit(<<">">>) \o <<Star(Whitespace)>> \o Lit(<<"/", "d", "e", "v", "/", "s", "d">>) \o <<One(Range("a", "z")), Star(Range("0", "9"))>>>>],
    [pattern |-> "mkfs\\.",
     alts |-> <<Lit(<<"m", "k", "f", "s", ".">>)>>],
    [pattern |-> "fdisk\\s+/dev/",
     alts |-> <<Lit(<<"f", "d", "i", "s", "k">>) \o <<Plus(Whitespace)>> \o Lit(<<"/", "d", "e", "v", "/">>)>>],
    [pattern |-> "curl.*\\|\\s*(sh|bash|zsh|fish)",
     alts |-> <<Lit(<<"c", "u", "r", "l">>) \o <<Star(Dot)>> \o Lit(<<"|">>) \o <<Star(Whitespace)>> \o Lit(<<"s", "h">>),
               Lit(<<"c", "u", "r", "l">>) \o <<Star(Dot)>> \o Lit(<<"|">>) \o <<Star(Whitespace)>> \o Lit(<<"b", "a", "s", "h">>),
               Lit(<<"c", "u", "r", "l">>) \o <<Star(Dot)>> \o Lit(<<"|">>) \o <<Star(Whitespace)>> \o Lit(<<"z", "s", "h">>),
               Lit(<<"c", "u", "r", "l">>) \o <<Star(Dot)>> \o Lit(<<"|">>) \o <<Star(Whitespace)>> \o Lit(<<"f", "i", "s", "h">>)>>],
    [pattern |-> "wget.*\\|\\s*(sh|bash|zsh|fish)",
     alts |-> <<Lit(<<"w", "g", "e", "t">>) \o <<Star(Dot)>> \o Lit(<<"|">>) \o <<Star(Whitespace)>> \o Lit(<<"s", "h">>),
               Lit(<<"w", "g", "e", "t">>) \o <<Star(Dot)>> \o Lit(<<"|">>) \o <<Star(Whitespace)>> \o Lit(<<"b", "a", "s", "h">>),
               Lit(<<"w", "g", "e", "t">>) \o <<Star(Dot)>> \o Lit(<<"|">>) \o <<Star(Whitespace)>> \o Lit(<<"z", "s", "h">>),
               Lit(<<"w", "g", "e", "t">>) \o <<Star(Dot)>> \o Lit(<<"|">>) \o <<Star(Whitespace)>> \o Lit(<<"f", "i", "s", "h">>)>>],
    [pattern |-> "eval\\s+[\"\\']?\\$\\(",
     alts |-> <<Lit(<<"e", "v", "a", "l">>) \o <<Plus(Whitespace), Opt(({Ord("\"")} \cup {Ord("'")}))>> \o Lit(<<"$", "(">>)>>],
    [pattern |-> "sudo\\s+chmod\\s+777",
     alts |-> <<Lit(<<"s", "u", "d", "o">>) \o <<Plus(Whitespace)>> \o Lit(<<"c", "h", "m", "o", "d">>) \o <<Plus(Whitespace)>> \o Lit(<<"7", "7", "7">>)>>],
    [pattern |-> "chmod\\s+777\\s+/",
     alts |-> <<Lit(<<"c", "h", "m", "o", "d">>) \o <<Plus(Whitespace)>> \o Lit(<<"7", "7", "7">>) \o <<Plus(Whitespace)>> \o Lit(<<"/">>)>>]
  >>

\* CommandValidator.suspicious_patterns.
suspicious_patterns ==
  <<
    [pattern |-> "sudo\\s+rm",
     alts |-> <<Lit(<<"s", "u", "d", "o">>) \o <<Plus(Whitespace)>> \o Lit(<<"r", "m">>)>>],
    [pattern |-> "sudo\\s+dd",
     alts |-> <<Lit(<<"s", "u", "d", "o">>) \o <<Plus(Whitespace)>> \o Lit(<<"d", "d">>)>>],
    [pattern |-> "sudo\\s+mount",
     alts |-> <<Lit(<<"s", "u", "d", "o">>) \o <<Plus(Whitespace)>> \o Lit(<<"m", "o", "u", "n", "t">>)>>],
    [pattern |-> "nc\\s+.*-[le]",
     alts |-> <<Lit(<<"n", "c">>) \o <<Plus(Whitespace), Star(Dot)>> \o Lit(<<"-">>) \o <<One(({Ord("l")} \cup {Ord("e")}))>>>>],
    [pattern |-> "python.*-c.*exec",
     alts |-> <<Lit(<<"p", "y", "t", "h", "o", "n">>) \o <<Star(Dot)>> \o Lit(<<"-", "c">>) \o <<Star(Dot)>> \o Lit(<<"e", "x", "e", "c">>)>>],
    [pattern |-> "perl.*-e",
     alts |-> <<Lit(<<"p", "e", "r", "l">>) \o <<Star(Dot)>> \o Lit(<<"-", "e">>)>>],
    [pattern |-> "ruby.*-e",
     alts |-> <<Lit(<<"r", "u", "b", "y">>) \o <<Star(Dot)>> \o Lit(<<"-", "e">>)>>],
    [pattern |-> "node.*-e",
     alts |-> <<Lit(<<"n", "o", "d", "e">>) \o <<Star(Dot)>> \o Lit(<<"-", "e">>)>>]
  >>

\* The injection_patterns of _check_command_injection, compiled with
\* re.IGNORECASE.
injection_patterns ==
  <<
    [pattern |-> ";\\s*rm\\s+",
     alts |-> <<IgnoreCase(Lit(<<";">>) \o <<Star(Whitespace)>> \o Lit(<<"r", "m">>) \o <<Plus(Whitespace)>>)>>],
    [pattern |-> "&&\\s*rm\\s+",
     alts |-> <<IgnoreCase(Lit(<<"&", "&">>) \o <<Star(Whitespace)>> \o Lit(<<"r", "m">>) \o <<Plus(Whitespace)>>)>>],
    [pattern |-> "\\|\\s*rm\\s+",
     alts |-> <<IgnoreCase(Lit(<<"|">>) \o <<Star(Whitespace)>> \o Lit(<<"r", "m">>) \o <<Plus(Whitespace)>>)>>],
    [pattern |-> "BACKTICK.*rm.*BACKTICK",
     alts |-> <<IgnoreCase(Lit(<<"BACKTICK">>) \o <<Star(Dot)>> \o Lit(<<"r", "m">>) \o <<Star(Dot)>> \o Lit(<<"BACKTICK">>))>>],
    [pattern |-> "\\$\\(.*rm.*\\)",
     alts |-> <<IgnoreCase(Lit(<<"$", "(">>) \o <<Star(Dot)>> \o Lit(<<"r", "m">>) \o <<Star(Dot)>> \o Lit(<<")">>))>>],
    [pattern |-> ">\\s*/etc/passwd",
     alts |-> <<IgnoreCase(Lit(<<">">>) \o <<Star(Whitespace)>> \o Lit(<<"/", "e", "t", "c", "/", "p", "a", "s", "s", "w", "d">>))>>],
    [pattern |-> ">\\s*/etc/shadow",
     alts |-> <<IgnoreCase(Lit(<<">">>) \o <<Star(Whitespace)>> \o Lit(<<"/", "e", "t", "c", "/", "s", "h", "a", "d", "o", "w">>))>>],
    [pattern |-> "<\\s*/dev/tcp/",
     alts |-> <<IgnoreCase(Lit(<<"<">>) \o <<Star(Whitespace)>> \o Lit(<<"/", "d", "e", "v", "/", "t", "c", "p", "/">>))>>]
  >>

\* DEFAULT_CONFIG["security"]["blocked_patterns"], as re.compile gives them.
DefaultBlockedPatterns ==
  <<
    [pattern |-> "rm\\s+-rf\\s+/",
     alts |-> <<Lit(<<"r", "m">>) \o <<Plus(Whitespace)>> \o Lit(<<"-", "r", "f">>) \o <<Plus(Whitespace)>> \o Lit(<<"/">>)>>],
    [pattern |-> ">(\\/dev\\/sda|\\/dev\\/hda)",
     alts |-> <<Lit(<<">", "/", "d", "e", "v", "/", "s", "d", "a">>),
               Lit(<<">", "/", "d", "e", "v", "/", "h", "d", "a">>)>>],
    [pattern |-> "curl.*\\|\\s*bash",
     alts |-> <<Lit(<<"c", "u", "r", "l">>) \o <<Star(Dot)>> \o Lit(<<"|">>) \o <<Star(Whitespace)>> \o Lit(<<"b", "a", "s", "h">>)>>]
  >>

\* re.compile of a configured pattern text: the texts the configurations and
\* rule files of the model use.  "(" is an unbalanced parenthesis, which
\* re.compile and re.search reject with re.error.
ReCompile(src) ==
  CASE src = "a" -> [ok |-> TRUE, alts |-> <<Lit(<<"a">>)>>]
    [] src = "a+" -> [ok |-> TRUE, alts |-> <<<<Plus({Ord("a")})>>>>]
    [] src = "foo" -> [ok |-> TRUE, alts |-> <<Lit(<<"f", "o", "o">>)>>]
    [] src = "(" -> [ok |-> FALSE, alts |-> <<>>]
    [] OTHER ->
         LET known == {i \in 1..Len(DefaultBlockedPatterns) :
                         DefaultBlockedPatterns[i].pattern = src}
         IN IF known = {} THEN [ok |-> FALSE, alts |-> <<>>]
            ELSE [ok |-> TRUE, alts |-> DefaultBlockedPatterns[MinOf(known)].alts]

\* ----------------------------------------------------------- configuration

\* security.max_command_length of DEFAULT_CONFIG.
DefaultMaxCommandLength == 1000

\* A small configured security.max_command_length, so that commands at and
\* over the limit are within reach of the check.
SmallMaxLength == 3

\* ai.max_retries of DEFAULT_CONFIG.
DefaultMaxRetries == 3

\* A YAML scalar with its type: len(command) > max_length is defined for a
\* number only.
YInt(n) == [type |-> "int", value |-> n]
YStr(s) == [type |-> "str", value |-> s]

PatternTexts(table) == Tuple([i \in 1..Len(table) |-> table[i].pattern])

\* DEFAULT_CONFIG as Config.get reads it; api_key is ai.api_key, set from
\* OPENAI_API_KEY; prompt_file is whether the wrapper prompt can be read.
DefaultConfig ==
  [max_command_length |-> YInt(DefaultMaxCommandLength),
   allow_multiline |-> FALSE,
   blocked_patterns |-> PatternTexts(DefaultBlockedPatterns),
   api_key |-> TRUE,
   prompt_file |-> TRUE,
   max_retries |-> DefaultMaxRetries]

\* The configurations (DEFAULT_CONFIG merged with config.yml and the
\* environment) the global Config instance is drawn from.
Configs ==
  { DefaultConfig,
    [DefaultConfig EXCEPT !.api_key = FALSE, !.prompt_file = FALSE],
    [DefaultConfig EXCEPT !.max_command_length = YInt(SmallMaxLength),
                          !.allow_multiline = TRUE,
                          !.blocked_patterns = <<"foo">>],
    [DefaultConfig EXCEPT !.max_command_length = YStr("1000")],
    [DefaultConfig EXCEPT !.blocked_patterns = <<"(">>] }

\* Config.get(key, default) on the keys the pipeline reads.
ConfigGet(cfg, key) == cfg[key]

\* --------------------------------------------------------------- sanitizer

\* CommandValidator.sanitize_command: strip, then delete the control
\* characters.
sanitize_command(command) ==
  ReSub(<<<<One(ControlClass)>>>>, <<>>, Strip(command))

\* ------------------------------------------------------------ security gate

\* A blank test that forgets command.strip(): only the empty string is blank.
IsBlankOnlyEmpty(command) == Len(command) = 0

\* not command or not command.strip()
IsBlank(command) == Len(command) = 0 \/ Strip(command) = <<>>

Contains(command, c) == \E i \in 1..Len(command) : command[i] = c

\* A length check that also rejects a command of exactly the maximum length.
_basic_validation_off_by_one(cfg, command) ==
  LET max_length == ConfigGet(cfg, "max_command_length")
  IN IF IsBlank(command) THEN [raised |-> FALSE, value |-> FALSE]
     ELSE IF max_length.type # "int" THEN [raised |-> TRUE, value |-> FALSE]
     ELSE IF Len(command) >= max_length.value THEN [raised |-> FALSE, value |-> FALSE]
     ELSE IF ~ConfigGet(cfg, "allow_multiline")
             /\ (Contains(command, LF) \/ Contains(command, CR))
       THEN [raised |-> FALSE, value |-> FALSE]
     ELSE IF Contains(command, NUL) THEN [raised |-> FALSE, value |-> FALSE]
     ELSE [raised |-> FALSE, value |-> TRUE]

\* A multiline check that does not read security.allow_multiline.
_basic_validation_always_single_line(cfg, command) ==
  LET max_length == ConfigGet(cfg, "max_command_length")
  IN IF IsBlank(command) THEN [raised |-> FALSE, value |-> FALSE]
     ELSE IF max_length.type # "int" THEN [raised |-> TRUE, value |-> FALSE]
     ELSE IF Len(command) > max_length.value THEN [raised |-> FALSE, value |-> FALSE]
     ELSE IF Contains(command, LF) \/ Contains(command, CR)
       THEN [raised |-> FALSE, value |-> FALSE]
     ELSE IF Contains(command, NUL) THEN [raised |-> FALSE, value |-> FALSE]
     ELSE [raised |-> FALSE, value |-> TRUE]

\* CommandValidator._basic_validation: raised when the comparison with a
\* max_length that is no number raises TypeError, else the returned bool.
_basic_validation(cfg, command) ==
  LET max_length == ConfigGet(cfg, "max_command_length")
  IN IF IsBlank(command) THEN [raised |-> FALSE, value |-> FALSE]
     ELSE IF max_length.type # "int" THEN [raised |-> TRUE, value |-> FALSE]
     ELSE IF Len(command) > max_length.value THEN [raised |-> FALSE, value |-> FALSE]
     ELSE IF ~ConfigGet(cfg, "allow_multiline")
             /\ (Contains(command, LF) \/ Contains(command, CR))
       THEN [raised |-> FALSE, value |-> FALSE]
     ELSE IF Contains(command, NUL) THEN [raised |-> FALSE, value |-> FALSE]
     ELSE [raised |-> FALSE, value |-> TRUE]

\* The first pattern of a compiled list that the command matches, 0 if none.
FirstMatch(patterns, command) ==
  LET hit == {i \in 1..Len(patterns) : Search(patterns[i].alts, command)}
  IN IF hit = {} THEN 0 ELSE MinOf(hit)

Safe == [is_safe |-> TRUE, error |-> <<>>]
Unsafe(kind, text) == [is_safe |-> FALSE, error |-> <<kind, text>>]

\* CommandValidator._load_security_patterns: the configured blocked
\* patterns, compiled.
CompileBlocked(cfg) ==
  LET texts == ConfigGet(cfg, "blocked_patterns")
  IN Tuple([i \in 1..Len(texts) |->
              [pattern |-> texts[i], alts |-> ReCompile(texts[i]).alts]])

\* Whether _load_security_patterns raises re.error.
CompileBlockedRaises(cfg) ==
  LET texts == ConfigGet(cfg, "blocked_patterns")
  IN \E i \in 1..Len(texts) : ~ReCompile(texts[i]).ok

\* A scan that tries the configured blocked patterns before the built-in
\* dangerous ones.
_check_dangerous_patterns_blocked_first(blocked, command) ==
  LET d == FirstMatch(dangerous_patterns, command)
      b == FirstMatch(blocked, command)
  IN IF b # 0 THEN Unsafe("Blocked command pattern: ", blocked[b].pattern)
     ELSE IF d # 0
       THEN Unsafe("Dangerous command pattern detected: ", dangerous_patterns[d].pattern)
     ELSE Safe

\* CommandValidator._check_dangerous_patterns: the built-in dangerous
\* patterns first, then the configured blocked patterns.
_check_dangerous_patterns(blocked, command) ==
  LET d == FirstMatch(dangerous_patterns, command)
      b == FirstMatch(blocked, command)
  IN IF d # 0
       THEN Unsafe("Dangerous command pattern detected: ", dangerous_patterns[d].pattern)
     ELSE IF b # 0 THEN Unsafe("Blocked command pattern: ", blocked[b].pattern)
     ELSE Safe

\* A suspicious scan that fails the gate at its first match.
_check_suspicious_patterns_blocking(command) ==
  LET s == FirstMatch(suspicious_patterns, command)
  IN IF s # 0 THEN Unsafe("Suspicious pattern detected: ", suspicious_patterns[s].pattern)
     ELSE Safe

\* CommandValidator._check_suspicious_patterns: matches are logged, the
\* result is (True, None) whatever matched.
_check_suspicious_patterns(command) ==
  LET logged == {i \in 1..Len(suspicious_patterns) :
                   Search(suspicious_patterns[i].alts, command)}
  IN IF logged = {} THEN Safe ELSE Safe

\* CommandValidator._check_command_injection.
_check_command_injection(command) ==
  LET j == FirstMatch(injection_patterns, command)
  IN IF j # 0
       THEN Unsafe("Command injection attempt detected: ", injection_patterns[j].pattern)
     ELSE Safe

\* A gate that passes the command when one of its checks raises.
validate_command_fail_open(cfg, blocked, command) ==
  LET basic == _basic_validation(cfg, command)
      danger_result == _check_dangerous_patterns(blocked, command)
      injection_result == _check_command_injection(command)
  IN IF basic.raised THEN Safe
     ELSE IF ~basic.value THEN Unsafe("Command failed basic validation checks", "")
     ELSE IF ~danger_result.is_safe THEN danger_result
     ELSE IF ~injection_result.is_safe THEN injection_result
     ELSE Safe

\* CommandValidator.validate_command: (is_safe, error_message).
validate_command(cfg, blocked, command) ==
  LET basic == _basic_validation(cfg, command)
      danger_result == _check_dangerous_patterns(blocked, command)
      suspicious_result == _check_suspicious_patterns(command)
      injection_result == _check_command_injection(command)
  IN IF basic.raised THEN Unsafe("Validation error: ", "TypeError")
     ELSE IF ~basic.value THEN Unsafe("Command failed basic validation checks", "")
     ELSE IF ~danger_result.is_safe THEN danger_result
     ELSE IF ~suspicious_result.is_safe THEN suspicious_result
     ELSE IF ~injection_result.is_safe THEN injection_result
     ELSE Safe

\* -------------------------------------------------------------- rule engine

\* An entry of the rules file as yaml.safe_load gives it: a mapping with the
\* optional keys pattern, replace, error and reason, or a scalar.
RuleDict(fields) == [kind |-> "dict", fields |-> fields]
RuleScalar == [kind |-> "str", fields |-> [value |-> "deny rm"]]

ReplaceRule == RuleDict([pattern |-> "a", replace |-> Str(<<"b">>)])
ErrorRule == RuleDict([pattern |-> "a+", error |-> "no a", reason |-> "policy"])
BareRule == RuleDict([pattern |-> "a"])
BadRegexRule == RuleDict([pattern |-> "(", error |-> "never"])
NoPatternRule == RuleDict([error |-> "no pattern"])
EmptyPatternRule == RuleDict([pattern |-> "", error |-> "empty pattern"])
BadTemplateRule == RuleDict([pattern |-> "a", replace |-> Str(<<"\\", "1">>), error |-> "bad"])
FooRule == RuleDict([pattern |-> "foo", replace |-> Str(<<"b", "a", "r">>), reason |-> "rename"])
RmRule == RuleDict([pattern |-> "foo", replace |-> Str(<<"r", "m", " ", "-", "r", "f", " ", "/">>)])

\* The rules the enumerated rule lists are built from.
RuleUniverse == {ReplaceRule, ErrorRule, BareRule}

\* Rule lists with an entry apply_rules cannot use, or with a rule for one
\* of the longer commands.
SampleRuleLists ==
  { <<RuleScalar>>, <<RuleScalar, ErrorRule>>, <<ErrorRule, RuleScalar>>,
    <<BadRegexRule>>, <<BadRegexRule, ErrorRule>>, <<ReplaceRule, BadRegexRule>>,
    <<NoPatternRule, ErrorRule>>, <<EmptyPatternRule, ErrorRule>>,
    <<BadTemplateRule, ErrorRule>>,
    <<BadTemplateRule, ReplaceRule>>, <<FooRule>>, <<RmRule>> }

\* The longest rule list enumerated in full.
MaxRules == 2

RECURSIVE SeqsUpTo(_, _)
SeqsUpTo(S, n) ==
  IF n = 0 THEN {<<>>}
  ELSE LET shorter == SeqsUpTo(S, n - 1)
       IN shorter \cup {Append(q, x) : q \in shorter, x \in S}

\* What yaml.safe_load(f) returns for the rules file.
YamlList(items) == [kind |-> "list", items |-> items]
YamlMapping == [kind |-> "dict", items |-> <<>>]
YamlInt == [kind |-> "int", items |-> <<>>]
YamlNone == [kind |-> "None", items |-> <<>>]

\* The states of the rules file load_rules can find: absent, unreadable or
\* not YAML, or holding a document.
RuleFiles ==
  {[state |-> "missing", doc |-> YamlNone], [state |-> "unreadable", doc |-> YamlNone]}
  \cup {[state |-> "ok", doc |-> d] :
          d \in {YamlNone, YamlMapping, YamlInt}
                \cup {YamlList(q) : q \in SeqsUpTo(RuleUniverse, MaxRules)}
                \cup {YamlList(q) : q \in SampleRuleLists}}

\* CommandChecker.load_rules with self._rules = cached and the file in state
\* file: the returned value and the new self._rules.  yaml.safe_load(f) or []
\* is assigned before len() is taken of it, and len() of a number raises.
load_rules(cached, file) ==
  IF cached.kind # "None" THEN [rules |-> cached, cache |-> cached]
  ELSE IF file.state # "ok" THEN [rules |-> YamlList(<<>>), cache |-> cached]
  ELSE LET loaded == IF file.doc.kind = "None" THEN YamlList(<<>>) ELSE file.doc
       IN IF loaded.kind = "int" THEN [rules |-> YamlList(<<>>), cache |-> loaded]
          ELSE [rules |-> loaded, cache |-> loaded]

Has(rule, key) == key \in DOMAIN rule.fields

\* dict.get(key, default)
Get(d, key, default) == IF key \in DOMAIN d THEN d[key] ELSE default

\* re.sub raises re.error for a template with a group reference the pattern
\* has no group for (the rule patterns of the model have no groups), or with
\* a trailing backslash.
TemplateRaises(repl) ==
  \E i \in 1..Len(repl) :
     /\ repl[i] = Ord("\\")
     /\ (i = Len(repl) \/ repl[i + 1] \in Range("1", "9"))

\* A rewrite that puts the template in the place of the whole command.
RuleOutcomeWholeCommand(rule, command) ==
  LET pattern == rule.fields.pattern
  IN IF Has(rule, "replace")
       THEN [action |-> "EXECUTE",
             command |-> rule.fields.replace,
             reason |-> Get(rule.fields, "reason", "Rule-based replacement"),
             rule_pattern |-> pattern]
     ELSE [action |-> "ERROR",
           message |-> <<rule.fields.error>>,
           reason |-> Get(rule.fields, "reason", "Rule-based blocking"),
           rule_pattern |-> pattern]

\* A rewrite that is refused when the rewritten command matches a dangerous
\* pattern.
RuleOutcomeGated(rule, command) ==
  LET pattern == rule.fields.pattern
      new_command == ReSub(ReCompile(pattern).alts, rule.fields.replace, command)
      d == FirstMatch(dangerous_patterns, new_command)
  IN IF Has(rule, "replace") /\ d # 0
       THEN [action |-> "ERROR",
             message |-> <<"Security violation: ", "Dangerous command pattern detected: ",
                           dangerous_patterns[d].pattern>>,
             reason |-> "Security check failed"]
     ELSE IF Has(rule, "replace")
       THEN [action |-> "EXECUTE",
             command |-> new_command,
             reason |-> Get(rule.fields, "reason", "Rule-based replacement"),
             rule_pattern |-> pattern]
     ELSE [action |-> "ERROR",
           message |-> <<rule.fields.error>>,
           reason |-> Get(rule.fields, "reason", "Rule-based blocking"),
           rule_pattern |-> pattern]

\* The result apply_rules returns for a rule that matched and decides.
RuleOutcome(rule, command) ==
  LET pattern == rule.fields.pattern
  IN IF Has(rule, "replace")
       THEN [action |-> "EXECUTE",
             command |-> ReSub(ReCompile(pattern).alts, rule.fields.replace, command),
             reason |-> Get(rule.fields, "reason", "Rule-based replacement"),
             rule_pattern |-> pattern]
     ELSE [action |-> "ERROR",
           message |-> <<rule.fields.error>>,
           reason |-> Get(rule.fields, "reason", "Rule-based blocking"),
           rule_pattern |-> pattern]

\* re.search(pattern, command) of a rule with a pattern that compiles.
RuleMatches(rule, command) ==
  /\ rule.kind = "dict"
  /\ Has(rule, "pattern")
  /\ rule.fields.pattern # ""
  /\ ReCompile(rule.fields.pattern).ok
  /\ Search(ReCompile(rule.fields.pattern).alts, command)

NoDecision == [action |-> "NONE"]

Returned(result) == [raised |-> "", result |-> result]
Raised(exception) == [raised |-> exception, result |-> NoDecision]

\* The loop of apply_rules from rule k on.
RECURSIVE ScanRules(_, _, _)
ScanRules(rules, k, command) ==
  IF k > Len(rules) THEN Returned(NoDecision)
  ELSE LET rule == rules[k]
       IN IF rule.kind # "dict" THEN Raised("AttributeError")
          ELSE IF ~Has(rule, "pattern") \/ rule.fields.pattern = ""
            THEN ScanRules(rules, k + 1, command)
          ELSE IF ~ReCompile(rule.fields.pattern).ok THEN ScanRules(rules, k + 1, command)
          ELSE IF ~RuleMatches(rule, command) THEN ScanRules(rules, k + 1, command)
          ELSE IF Has(rule, "replace")
            THEN IF TemplateRaises(rule.fields.replace)
                   THEN ScanRules(rules, k + 1, command)
                 ELSE Returned(RuleOutcome(rule, command))
          ELSE IF Has(rule, "error") THEN Returned(RuleOutcome(rule, command))
          ELSE ScanRules(rules, k + 1, command)

\* The rule has a pattern that re.search cannot compile.
BadPattern(rule) ==
  /\ rule.kind = "dict"
  /\ Has(rule, "pattern")
  /\ rule.fields.pattern # ""
  /\ ~ReCompile(rule.fields.pattern).ok

\* A rule engine that gives up the scan at a pattern that fails to compile.
apply_rules_stop_at_bad_pattern(rules, command) ==
  IF rules.kind = "list"
    THEN LET bad == {i \in 1..Len(rules.items) : BadPattern(rules.items[i])}
             n == IF bad = {} THEN Len(rules.items) ELSE MinOf(bad) - 1
         IN ScanRules(SubSeq(rules.items, 1, n), 1, command)
  ELSE IF rules.kind = "dict" THEN Raised("AttributeError")
  ELSE Raised("TypeError")

\* The rule has no effect: it has no pattern or an empty one, or it has
\* neither a replace nor an error field.
NoEffect(rule) ==
  /\ rule.kind = "dict"
  /\ \/ ~Has(rule, "pattern")
     \/ rule.fields.pattern = ""
     \/ ~Has(rule, "replace") /\ ~Has(rule, "error")

\* A rule engine that ends the scan at the first rule without effect.
apply_rules_stop_at_no_effect(rules, command) ==
  IF rules.kind = "list"
    THEN LET idle == {i \in 1..Len(rules.items) : NoEffect(rules.items[i])}
             n == IF idle = {} THEN Len(rules.items) ELSE MinOf(idle) - 1
         IN ScanRules(SubSeq(rules.items, 1, n), 1, command)
  ELSE IF rules.kind = "dict" THEN Raised("AttributeError")
  ELSE Raised("TypeError")

Reverse(s) == Tuple([i \in 1..Len(s) |-> s[Len(s) + 1 - i]])

\* A rule engine in which the last matching rule wins.
apply_rules_last_match(rules, command) ==
  IF rules.kind = "list" THEN ScanRules(Reverse(rules.items), 1, command)
  ELSE IF rules.kind = "dict" THEN Raised("AttributeError")
  ELSE Raised("TypeError")

\* CommandChecker.apply_rules on the value load_rules returned: a list is
\* scanned in order; iterating a mapping yields its keys, which have no get;
\* a number cannot be iterated.
apply_rules(rules, command) ==
  IF rules.kind = "list" THEN ScanRules(rules.items, 1, command)
  ELSE IF rules.kind = "dict" THEN Raised("AttributeError")
  ELSE Raised("TypeError")

\* ------------------------------------------------------------ oracle adapter

\* str.upper() of the action texts an oracle answer of the model carries.
Upper(s) ==
  CASE s = "pass" -> "PASS"
    [] s = "execute" -> "EXECUTE"
    [] s = "Error" -> "ERROR"
    [] s = "allow" -> "ALLOW"
    [] OTHER -> s

ValidActions == {"PASS", "EXECUTE", "ERROR"}

\* A JSON object of the oracle: action says whether the key is absent, a
\* string or another JSON value; obj holds the keys with string values.
JsonObject(action, obj) == [kind |-> "object", action |-> action, obj |-> obj]
Outcome(kind) == [kind |-> kind, action |-> "absent", obj |-> [reason |-> ""]]

\* What _get_ai_client, client.chat.completions.create and the parsing of
\* its answer can meet: openai.OpenAI raising, an exception of the transport, an interrupt of the caller, an answer
\* without choices, without content, with content that is no JSON, that is
\* JSON but no object, or an object.
OracleOutcomes ==
  { Outcome("client_error"), Outcome("transport_error"), Outcome("interrupt"), Outcome("no_choices"),
    Outcome("empty_content"), Outcome("invalid_json"), Outcome("non_object"),
    JsonObject("absent", [reason |-> "fine"]),
    JsonObject("non_string", [reason |-> "fine"]),
    JsonObject("string", [action |-> "PASS"]),
    JsonObject("string", [action |-> "EXECUTE", command |-> Str(<<"l", "s">>)]),
    JsonObject("string", [action |-> "EXECUTE",
                          command |-> Str(<<"r", "m", " ", "-", "r", "f", " ", "/">>)]),
    JsonObject("string", [action |-> "EXECUTE"]),
    JsonObject("string", [action |-> "ERROR", message |-> <<"no">>]),
    JsonObject("string", [action |-> "ERROR"]),
    JsonObject("string", [action |-> "execute", command |-> Str(<<"l", "s">>)]),
    JsonObject("string", [action |-> "allow"]) }

Pass(reason) == [action |-> "PASS", reason |-> reason]

AdapterReturn(action, result) == [raised |-> "", action |-> action, result |-> result]

\* An adapter that returns the action of the oracle unvalidated.
ValidateActionSkipped(action, result) == AdapterReturn(action, result)

\* An adapter that turns every answer into PASS.
ValidateActionAlwaysPass(action, result) ==
  AdapterReturn("PASS", [action |-> "PASS"] @@ result)

\* call_openai, "# Validate action": an action outside PASS, EXECUTE, ERROR
\* becomes PASS, in the returned action and in result["action"].
ValidateAction(action, result) ==
  IF action \notin ValidActions
    THEN AdapterReturn("PASS", [action |-> "PASS"] @@ result)
  ELSE AdapterReturn(action, result)

\* CommandChecker.call_openai once a client exists, on the outcome of the
\* request: (action, result), or the exception that leaves it.
ParseResponse(outcome) ==
  CASE outcome.kind = "interrupt" ->
         [raised |-> "KeyboardInterrupt", action |-> "", result |-> NoDecision]
    [] outcome.kind = "transport_error" ->
         AdapterReturn("PASS", Pass("AI error: transport"))
    [] outcome.kind = "no_choices" -> AdapterReturn("PASS", Pass("Empty AI response"))
    [] outcome.kind = "empty_content" -> AdapterReturn("PASS", Pass("Empty AI content"))
    [] outcome.kind = "invalid_json" ->
         AdapterReturn("PASS", Pass("Invalid AI JSON response"))
    [] outcome.kind = "non_object" ->
         AdapterReturn("PASS", Pass("AI error: AttributeError"))
    [] OTHER ->
         IF outcome.action = "non_string"
           THEN AdapterReturn("PASS", Pass("AI error: AttributeError"))
         ELSE LET result == outcome.obj
                  action == Upper(Get(result, "action", "PASS"))
              IN ValidateAction(action, result)

\* A client that is built whether or not an API key is configured.
_get_ai_client_without_key(cfg, client, outcome) ==
  client \/ outcome.kind # "client_error"

\* CommandChecker._get_ai_client: whether a client is returned (and then
\* kept in self._ai_client).
_get_ai_client(cfg, client, outcome) ==
  \/ client
  \/ ConfigGet(cfg, "api_key") /\ outcome.kind # "client_error"

\* CommandChecker.call_openai.
call_openai(cfg, client, outcome) ==
  IF ~_get_ai_client(cfg, client, outcome)
    THEN AdapterReturn("PASS", Pass("AI unavailable"))
  ELSE ParseResponse(outcome)

\* CommandChecker.build_ai_prompt: the wrapper template with the command
\* filled in, or the embedded minimal prompt when a file cannot be read.
build_ai_prompt(cfg, command) ==
  [template |-> IF ConfigGet(cfg, "prompt_file") THEN "wrapper" ELSE "fallback",
   command |-> command]

\* format_output: the line main prints.
format_output(result) ==
  LET action == Get(result, "action", "PASS")
  IN IF action = "PASS" THEN [line |-> "PASS"]
     ELSE IF action = "EXECUTE"
       THEN [line |-> "EXECUTE: ", command |-> Get(result, "command", <<>>)]
     ELSE IF action = "ERROR"
       THEN [line |-> "ERROR: ", message |-> Get(result, "message", <<"Command blocked">>)]
     ELSE [line |-> "PASS"]

\* ------------------------------------------------------------------ inputs

\* The longest raw command enumerated in full.
MaxLen == 3

\* The characters the enumerated commands are made of: a letter, a line
\* feed (whitespace, and what makes a command multiline) and a control
\* character that is no whitespace.
CommandChars == {Ord("a"), LF, SOH}

\* Commands from the specification and the pattern library, with and without
\* characters the sanitizer removes around them.
SampleCommands ==
  LET samples ==
        { Str(<<"r", "m", " ", "-", "r", "f", " ", "/">>),
          Str(<<":", "(", ")", "{", " ", ":", "|", ":", "&", " ", "}", ";", ":">>),
          Str(<<"c", "u", "r", "l", " ", "x", " ", "|", " ", "b", "a", "s", "h">>),
          Str(<<"m", "k", "f", "s", ".", "e", "x", "t", "4">>),
          Str(<<"l", "s", " ", ">", "/", "d", "e", "v", "/", "h", "d", "a">>),
          Str(<<"l", "s", ";", " ", "r", "m", " ", "x">>),
          Str(<<"L", "S", ";", "R", "M", " ", "x">>),
          Str(<<"r", "m", " ", "-", "r", "f", " ", "/", ";", " ", "r", "m", " ", "x">>),
          Str(<<"s", "u", "d", "o", " ", "r", "m", " ", "x">>),
          Str(<<"s", "u", "d", "o", " ", "r", "m", " ", "x", ";", " ", "r", "m", " ", "y">>),
          Str(<<"l", "s", " ", "-", "l", "a">>),
          Str(<<"r", "u", "n", " ", "f", "o", "o", " ", "n", "o", "w">>),
          Tuple([i \in 1..(SmallMaxLength + 1) |-> Ord("a")]) }
  IN samples \cup {<<SOH>> \o s : s \in samples} \cup {s \o <<VT, DEL>> : s \in samples}
     \cup {<<VT>>, <<NUL, CR>>, <<DEL, Ord(" "), Ord("a")>>, <<SOH, Ord(" "), Ord("a")>>,
           <<Ord(" ")>>, <<Ord(" "), Ord("a"), Ord(" ")>>, <<Ord("a"), Ord(" "), Ord("a")>>}

\* The raw commands main is called with.
RawCommands == SeqsUpTo(CommandChars, MaxLen) \cup SampleCommands

\* ------------------------------------------------------------------- state

VARIABLES
  pc,                 \* where main is
  argv,               \* sys.argv[1], the command main was started with
  config,             \* the global Config instance
  blocked_patterns,   \* CommandValidator.blocked_patterns
  rules_cache,        \* CommandChecker._rules
  ai_client,          \* CommandChecker._ai_client is not None
  calls_left,         \* the calls of check_command still to come
  command,            \* the raw command of the current call
  sanitized_command,
  security,           \* (is_safe, security_error) of the current call
  rules_file,         \* the rules file as load_rules found it in the current call
  rules,              \* what load_rules returned to apply_rules
  rule_result,        \* what apply_rules returned
  oracle,             \* the outcome the oracle stage met
  ai_action,          \* the action call_openai returned
  requests,           \* requests sent to the oracle in the current call
  calls,              \* the stages invoked in the current call, in order
  result,             \* what check_command returned
  exception,          \* the exception that left check_command or __init__
  output,             \* what main printed
  earlier,            \* the oracle outcomes the finished calls of this checker met
  workers             \* the threads that call check_command on one CommandChecker

vars ==
  <<pc, argv, config, blocked_patterns, rules_cache, ai_client, calls_left, command,
    sanitized_command, security, rules_file, rules, rule_result, oracle, ai_action,
    requests, calls, result, exception, output, earlier, workers>>

NoResult == [action |-> "unset"]
NoOutput == [line |-> "unset"]
NoOracle == Outcome("unset")
NotChecked == [is_safe |-> FALSE, error |-> <<"unset", "">>]

\* load_rules has not looked for the rules file in the current call.
NotRead == [state |-> "not_read", doc |-> YamlNone]

\* The threads that share one CommandChecker.
MaxThreads == 2
Threads == 1..MaxThreads

\* A thread that has not called check_command.
Idle ==
  [pc |-> "idle", command |-> <<>>, sanitized_command |-> <<>>, rules |-> YamlNone,
   outcome |-> NoOracle, result |-> NoResult, exception |-> ""]

\* The per-call variables before a call.
Fresh ==
  /\ command = <<>>
  /\ sanitized_command = <<>>
  /\ security = NotChecked
  /\ rules_file = NotRead
  /\ rules = YamlNone
  /\ rule_result = NoDecision
  /\ oracle = NoOracle
  /\ ai_action = ""
  /\ requests = 0
  /\ calls = <<>>
  /\ result = NoResult
  /\ exception = ""

\* main has set up logging, which created the global Config.
Init ==
  /\ pc = "start"
  /\ argv \in RawCommands
  /\ config \in Configs
  /\ blocked_patterns = <<>>
  /\ rules_cache = YamlNone
  /\ ai_client = FALSE
  /\ calls_left = 1
  /\ Fresh
  /\ output = NoOutput
  /\ earlier = <<>>
  /\ workers = [w \in Threads |-> Idle]

\* main: checker = CommandChecker().  CommandValidator.__init__ compiles the
\* configured blocked patterns, and an invalid one raises re.error.
Construct ==
  /\ pc = "start"
  /\ IF CompileBlockedRaises(config)
       THEN /\ pc' = "ctor_raised"
            /\ exception' = "re.error"
            /\ UNCHANGED blocked_patterns
       ELSE /\ pc' = "ready"
            /\ blocked_patterns' = CompileBlocked(config)
            /\ UNCHANGED exception
  /\ UNCHANGED <<argv, config, rules_cache, ai_client, calls_left, command,
                 sanitized_command, security, rules_file, rules, rule_result, oracle,
                 ai_action, requests, calls, result, output, earlier,
                 workers>>

\* check_command(command), up to the blank test of its first lines; main
\* calls it with sys.argv[1].
Call(cmd) ==
  /\ pc = "ready"
  /\ calls_left > 0
  /\ calls_left' = calls_left - 1
  /\ command' = cmd
  /\ sanitized_command' = <<>>
  /\ security' = NotChecked
  /\ rules_file' = NotRead
  /\ rules' = YamlNone
  /\ rule_result' = NoDecision
  /\ oracle' = NoOracle
  /\ ai_action' = ""
  /\ requests' = 0
  /\ calls' = <<>>
  /\ exception' = ""
  /\ output' = NoOutput
  /\ IF IsBlank(cmd)
       THEN /\ result' = Pass("Empty command")
            /\ pc' = "returned"
       ELSE /\ result' = NoResult
            /\ pc' = "sanitize"
  /\ UNCHANGED <<argv, config, blocked_patterns, rules_cache, ai_client, earlier,
                 workers>>

\* sanitized_command = self.validator.sanitize_command(command)
Sanitize ==
  /\ pc = "sanitize"
  /\ sanitized_command' = sanitize_command(command)
  /\ calls' = Append(calls, "sanitize_command")
  /\ pc' = "validate"
  /\ UNCHANGED <<argv, config, blocked_patterns, rules_cache, ai_client, calls_left,
                 command, security, rules_file, rules, rule_result, oracle, ai_action,
                 requests, result, exception, output, earlier,
                 workers>>

\* An orchestrator that ignores the verdict of the gate.
GateIgnored(v) == TRUE

\* check_command: is_safe, the test of "if not is_safe".
GatePassed(v) == v.is_safe

\* check_command: the verdict returned when the gate failed.
SecurityVerdict(v) ==
  [action |-> "ERROR",
   message |-> <<"Security violation: ">> \o v.error,
   reason |-> "Security check failed"]

\* The security gate, and the ERROR verdict check_command returns when it
\* fails.
Validate ==
  /\ pc = "validate"
  /\ LET v == validate_command(config, blocked_patterns, sanitized_command)
     IN /\ security' = v
        /\ IF GatePassed(v)
             THEN /\ pc' = "rules"
                  /\ UNCHANGED result
             ELSE /\ pc' = "returned"
                  /\ result' = SecurityVerdict(v)
  /\ calls' = Append(calls, "validate_command")
  /\ UNCHANGED <<argv, config, blocked_patterns, rules_cache, ai_client, calls_left,
                 command, sanitized_command, rules_file, rules, rule_result, oracle,
                 ai_action, requests, exception, output, earlier,
                 workers>>

\* An orchestrator that returns only the rewrites of the rule engine.
RuleDecidedOnlyExecute(rule_action) == rule_action = "EXECUTE"

\* check_command: rule_action in ["EXECUTE", "ERROR"].
RuleDecided(rule_action) == rule_action \in {"EXECUTE", "ERROR"}

\* The rule stage with the rules file in state file: apply_rules, which
\* loads the rules (and looks for the file only when nothing is cached), and
\* the return of a rule decision.
ApplyRulesWith(file) ==
  /\ pc = "rules"
  /\ LET loaded == load_rules(rules_cache, file)
         r == apply_rules(loaded.rules, sanitized_command)
     IN /\ rules_cache' = loaded.cache
        /\ rules_file' = IF rules_cache.kind # "None" THEN NotRead ELSE file
        /\ rules' = loaded.rules
        /\ rule_result' = r.result
        /\ IF r.raised # ""
             THEN /\ pc' = "raised"
                  /\ exception' = r.raised
                  /\ UNCHANGED result
           ELSE IF RuleDecided(r.result.action)
             THEN /\ pc' = "returned"
                  /\ result' = r.result
                  /\ UNCHANGED exception
           ELSE /\ pc' = "oracle"
                /\ UNCHANGED <<result, exception>>
  /\ calls' = Append(calls, "apply_rules")
  /\ UNCHANGED <<argv, config, blocked_patterns, ai_client, calls_left, command,
                 sanitized_command, security, oracle, ai_action, requests, output,
                 earlier,
                 workers>>

\* The rule stage, whatever state the rules file is in.
ApplyRules == \E file \in RuleFiles : ApplyRulesWith(file)

\* A call_openai that sends a failed request again, ai.max_retries times.
RequestsSentWithRetries(cfg, client, outcome) ==
  IF ~client THEN 0
  ELSE IF outcome.kind = "transport_error" THEN 1 + ConfigGet(cfg, "max_retries")
  ELSE 1

\* call_openai: client.chat.completions.create is called once when there is
\* a client, outside any loop, and not at all without one.
RequestsSent(cfg, client, outcome) == IF client THEN 1 ELSE 0

\* The oracle stage when the oracle behaves as outcome says:
\* call_openai(build_ai_prompt(sanitized_command)) and the metadata added to
\* its result.
CallOracleWith(outcome) ==
  /\ pc = "oracle"
  \* openai.OpenAI is constructed only with a key and no client yet
  /\ outcome.kind = "client_error" => ~ai_client /\ ConfigGet(config, "api_key")
  /\ LET client == _get_ai_client(config, ai_client, outcome)
         a == call_openai(config, ai_client, outcome)
     IN /\ ai_client' = client
        /\ oracle' = IF client THEN outcome
                     ELSE IF outcome.kind = "client_error" /\ ConfigGet(config, "api_key")
                       THEN outcome
                     ELSE NoOracle
        /\ requests' = requests + RequestsSent(config, client, outcome)
        /\ ai_action' = a.action
        /\ IF a.raised # ""
             THEN /\ pc' = "raised"
                  /\ exception' = a.raised
                  /\ UNCHANGED result
             ELSE /\ pc' = "returned"
                  /\ result' = [analysis_type |-> "ai",
                                original_command |-> command,
                                sanitized_command |-> sanitized_command] @@ a.result
                  /\ UNCHANGED exception
  /\ calls' = calls \o <<"build_ai_prompt", "call_openai">>
  /\ UNCHANGED <<argv, config, blocked_patterns, rules_cache, calls_left, command,
                 sanitized_command, security, rules_file, rules, rule_result, output,
                 earlier,
                 workers>>

\* The oracle stage, whatever the oracle does.
CallOracle == \E outcome \in OracleOutcomes : CallOracleWith(outcome)

\* main: print(format_output(result)).  A caller with further commands for
\* the same CommandChecker goes on to the next one.
MainPrint ==
  /\ pc = "returned"
  /\ output' = format_output(result)
  /\ pc' = IF calls_left > 0 THEN "ready" ELSE "exit"
  /\ earlier' = IF calls_left > 0 THEN Append(earlier, oracle.kind) ELSE earlier
  /\ UNCHANGED <<argv, config, blocked_patterns, rules_cache, ai_client, calls_left,
                 command, sanitized_command, security, rules_file, rules, rule_result,
                 oracle, ai_action, requests, calls, result, exception,
                 workers>>

\* Handlers that refuse the command when its check could not be made.
MainExceptFailsClosed ==
  /\ pc \in {"raised", "ctor_raised"}
  /\ output' = [line |-> "ERROR: ", message |-> <<"Command blocked">>]
  /\ pc' = "exit"
  /\ UNCHANGED <<argv, config, blocked_patterns, rules_cache, ai_client, calls_left,
                 command, sanitized_command, security, rules_file, rules, rule_result,
                 oracle, ai_action, requests, calls, result, exception, earlier,
                 workers>>

\* main: the handlers of KeyboardInterrupt and Exception print PASS and exit
\* with status 0.
MainExcept ==
  /\ pc \in {"raised", "ctor_raised"}
  /\ output' = [line |-> "PASS"]
  /\ pc' = "exit"
  /\ UNCHANGED <<argv, config, blocked_patterns, rules_cache, ai_client, calls_left,
                 command, sanitized_command, security, rules_file, rules, rule_result,
                 oracle, ai_action, requests, calls, result, exception, earlier,
                 workers>>

Next ==
  \/ Construct
  \/ Call(argv)
  \/ Sanitize
  \/ Validate
  \/ ApplyRules
  \/ CallOracle
  \/ MainPrint
  \/ MainExcept

Spec == Init /\ [][Next]_vars

\* ------------------------------------------- one CommandChecker, many calls

\* The calls of check_command a caller makes on one CommandChecker.
MaxCalls == 2

\* The configurations of such a caller: the default, one without an API
\* key, and one with ai.max_retries set to 0.
SessionConfigs ==
  { DefaultConfig,
    [DefaultConfig EXCEPT !.api_key = FALSE, !.prompt_file = FALSE],
    [DefaultConfig EXCEPT !.max_retries = 0] }

\* Its commands: one the rules of the model match, one they do not, one the
\* gate refuses, and a blank one.
SessionCommands ==
  { Str(<<"a">>), Str(<<"l", "s", " ", "-", "l", "a">>),
    Str(<<"r", "m", " ", "-", "r", "f", " ", "/">>), Str(<<" ">>) }

\* The states the rules file is in when a call looks for it; the file may
\* change between two calls.
SessionRuleFiles ==
  { [state |-> "missing", doc |-> YamlNone],
    [state |-> "unreadable", doc |-> YamlNone],
    [state |-> "ok", doc |-> YamlNone],
    [state |-> "ok", doc |-> YamlInt],
    [state |-> "ok", doc |-> YamlMapping],
    [state |-> "ok", doc |-> YamlList(<<ErrorRule>>)],
    [state |-> "ok", doc |-> YamlList(<<ReplaceRule>>)] }

\* What the oracle does in a call.
SessionOutcomes ==
  { Outcome("client_error"), Outcome("transport_error"), Outcome("interrupt"),
    Outcome("invalid_json"),
    JsonObject("string", [action |-> "PASS"]),
    JsonObject("string", [action |-> "ERROR", message |-> <<"no">>]) }

\* A caller that constructs one CommandChecker and checks MaxCalls commands
\* with it, printing each verdict as main does.
InitSession ==
  /\ pc = "start"
  /\ argv = <<>>
  /\ config \in SessionConfigs
  /\ blocked_patterns = <<>>
  /\ rules_cache = YamlNone
  /\ ai_client = FALSE
  /\ calls_left = MaxCalls
  /\ Fresh
  /\ output = NoOutput
  /\ earlier = <<>>
  /\ workers = [w \in Threads |-> Idle]

NextSession ==
  \/ Construct
  \/ \E cmd \in SessionCommands : Call(cmd)
  \/ Sanitize
  \/ Validate
  \/ \E file \in SessionRuleFiles : ApplyRulesWith(file)
  \/ \E outcome \in SessionOutcomes : CallOracleWith(outcome)
  \/ MainPrint
  \/ MainExcept

SpecSession == InitSession /\ [][NextSession]_vars

\* ------------------------------------- one CommandChecker, several threads

\* CommandChecker.check_command run from its first line to its return on a
\* CommandChecker whose _rules is cached and whose _ai_client exists or not,
\* with the rules file in state file and the oracle behaving as outcome
\* says: the verdict, or the exception that leaves it.
check_command(cfg, blocked, cached, client, cmd, file, outcome) ==
  IF IsBlank(cmd) THEN [raised |-> "", result |-> Pass("Empty command")]
  ELSE LET sanitized == sanitize_command(cmd)
           v == validate_command(cfg, blocked, sanitized)
       IN IF ~GatePassed(v) THEN [raised |-> "", result |-> SecurityVerdict(v)]
          ELSE LET r == apply_rules(load_rules(cached, file).rules, sanitized)
               IN IF r.raised # "" THEN [raised |-> r.raised, result |-> NoResult]
                  ELSE IF RuleDecided(r.result.action)
                    THEN [raised |-> "", result |-> r.result]
                  ELSE LET a == call_openai(cfg, client, outcome)
                       IN IF a.raised # ""
                            THEN [raised |-> a.raised, result |-> NoResult]
                          ELSE [raised |-> "",
                                result |-> [analysis_type |-> "ai",
                                            original_command |-> cmd,
                                            sanitized_command |-> sanitized] @@ a.result]

\* The configurations of the threaded caller.
ThreadConfigs == {DefaultConfig, [DefaultConfig EXCEPT !.api_key = FALSE]}

\* The commands the threads check: one the rules of the model match, one
\* they do not, one the gate refuses.
ThreadCommands ==
  { Str(<<"a">>), Str(<<"l", "s">>), Str(<<"m", "k", "f", "s", ".">>) }

\* The rules file, which stays as it is while the threads run.
ThreadRuleFiles ==
  { [state |-> "missing", doc |-> YamlNone],
    [state |-> "ok", doc |-> YamlInt],
    [state |-> "ok", doc |-> YamlMapping],
    [state |-> "ok", doc |-> YamlList(<<ErrorRule>>)],
    [state |-> "ok", doc |-> YamlList(<<ReplaceRule, ErrorRule>>)] }

\* What the oracle does with the request of a thread.
ThreadOutcomes ==
  { Outcome("transport_error"),
    JsonObject("string", [action |-> "PASS"]),
    JsonObject("string", [action |-> "ERROR", message |-> <<"no">>]) }

\* A caller that has constructed one CommandChecker and lets each thread
\* call check_command on it once.  rules_file is the rules file on disk.
InitThreads ==
  /\ pc = "start"
  /\ argv = <<>>
  /\ config \in ThreadConfigs
  /\ blocked_patterns = <<>>
  /\ rules_cache = YamlNone
  /\ ai_client = FALSE
  /\ calls_left = 0
  /\ command = <<>>
  /\ sanitized_command = <<>>
  /\ security = NotChecked
  /\ rules_file \in ThreadRuleFiles
  /\ rules = YamlNone
  /\ rule_result = NoDecision
  /\ oracle = NoOracle
  /\ ai_action = ""
  /\ requests = 0
  /\ calls = <<>>
  /\ result = NoResult
  /\ exception = ""
  /\ output = NoOutput
  /\ earlier = <<>>
  /\ workers = [w \in Threads |-> Idle]

\* What a step of a thread leaves alone: everything but the two fields of
\* the CommandChecker and the threads.
ThreadFrame ==
  UNCHANGED <<pc, argv, config, blocked_patterns, calls_left, command,
              sanitized_command, security, rules_file, rules, rule_result, oracle,
              ai_action, requests, calls, result, exception, output, earlier>>

\* Thread w returns from check_command, or an exception leaves it.
Finish(w, r) ==
  workers' = [workers EXCEPT ![w].pc = IF r.raised # "" THEN "raised" ELSE "done",
                             ![w].result = r.result,
                             ![w].exception = r.raised]

\* apply_rules of thread w on the value its load_rules returned: the scan,
\* and the return of a rule decision.
ScanLoaded(w, loaded) ==
  LET r == apply_rules(loaded, workers[w].sanitized_command)
  IN IF r.raised # ""
       THEN workers' = [workers EXCEPT ![w].pc = "raised", ![w].rules = loaded,
                                       ![w].exception = r.raised]
     ELSE IF RuleDecided(r.result.action)
       THEN workers' = [workers EXCEPT ![w].pc = "done", ![w].rules = loaded,
                                       ![w].result = r.result]
     ELSE workers' = [workers EXCEPT ![w].pc = "client_check", ![w].rules = loaded]

\* check_command of thread w up to the call of apply_rules: the blank test,
\* the sanitizer and the gate, none of which touches a field of the checker.
Begin(w, cmd) ==
  /\ pc = "ready"
  /\ workers[w].pc = "idle"
  /\ LET sanitized == sanitize_command(cmd)
         v == validate_command(config, blocked_patterns, sanitized)
     IN IF IsBlank(cmd)
          THEN workers' = [workers EXCEPT ![w].pc = "done", ![w].command = cmd,
                                          ![w].result = Pass("Empty command")]
        ELSE IF ~GatePassed(v)
          THEN workers' = [workers EXCEPT ![w].pc = "done", ![w].command = cmd,
                                          ![w].sanitized_command = sanitized,
                                          ![w].result = SecurityVerdict(v)]
        ELSE workers' = [workers EXCEPT ![w].pc = "load_check", ![w].command = cmd,
                                        ![w].sanitized_command = sanitized]
  /\ UNCHANGED <<rules_cache, ai_client>>
  /\ ThreadFrame

\* load_rules, "if self._rules is not None".
LoadCheck(w) ==
  /\ workers[w].pc = "load_check"
  /\ workers' = [workers EXCEPT ![w].pc = IF rules_cache.kind # "None" THEN "load_cached"
                                          ELSE "load_file"]
  /\ UNCHANGED <<rules_cache, ai_client>>
  /\ ThreadFrame

\* load_rules, "return self._rules" of the cached value, and the scan.
LoadCached(w) ==
  /\ workers[w].pc = "load_cached"
  /\ ScanLoaded(w, rules_cache)
  /\ UNCHANGED <<rules_cache, ai_client>>
  /\ ThreadFrame

\* load_rules, the look for the file and "self._rules = yaml.safe_load(f) or
\* []": a missing or unreadable file returns [] and assigns nothing.
LoadFile(w) ==
  /\ workers[w].pc = "load_file"
  /\ IF rules_file.state # "ok"
       THEN /\ ScanLoaded(w, YamlList(<<>>))
            /\ UNCHANGED rules_cache
       ELSE /\ rules_cache' = IF rules_file.doc.kind = "None" THEN YamlList(<<>>)
                               ELSE rules_file.doc
            /\ workers' = [workers EXCEPT ![w].pc = "load_len"]
  /\ UNCHANGED ai_client
  /\ ThreadFrame

\* load_rules, len(self._rules) of the logging line: it raises for a number,
\* and the handler returns [].
LoadLen(w) ==
  /\ workers[w].pc = "load_len"
  /\ IF rules_cache.kind = "int"
       THEN ScanLoaded(w, YamlList(<<>>))
       ELSE workers' = [workers EXCEPT ![w].pc = "load_return"]
  /\ UNCHANGED <<rules_cache, ai_client>>
  /\ ThreadFrame

\* load_rules, "return self._rules" after a load, and the scan.
LoadReturn(w) ==
  /\ workers[w].pc = "load_return"
  /\ ScanLoaded(w, rules_cache)
  /\ UNCHANGED <<rules_cache, ai_client>>
  /\ ThreadFrame

\* The verdict of the oracle stage for what call_openai returned.
OracleVerdict(w, a) ==
  [raised |-> a.raised,
   result |-> IF a.raised # "" THEN NoResult
              ELSE [analysis_type |-> "ai",
                    original_command |-> workers[w].command,
                    sanitized_command |-> workers[w].sanitized_command] @@ a.result]

\* _get_ai_client, "if self._ai_client is not None" and the test of the API
\* key; without a key call_openai returns PASS.
ClientCheck(w) ==
  /\ workers[w].pc = "client_check"
  /\ IF ai_client THEN workers' = [workers EXCEPT ![w].pc = "request"]
     ELSE IF ~ConfigGet(config, "api_key")
       THEN Finish(w, OracleVerdict(w, call_openai(config, FALSE, NoOracle)))
     ELSE workers' = [workers EXCEPT ![w].pc = "client_make"]
  /\ UNCHANGED <<rules_cache, ai_client>>
  /\ ThreadFrame

\* _get_ai_client, "self._ai_client = openai.OpenAI(api_key=api_key)", which
\* may raise.
ClientMake(w, built) ==
  /\ workers[w].pc = "client_make"
  /\ IF built
       THEN /\ ai_client' = TRUE
            /\ workers' = [workers EXCEPT ![w].pc = "request"]
       ELSE /\ UNCHANGED ai_client
            /\ workers' =
                 [workers EXCEPT
                    ![w].pc = "done",
                    ![w].outcome = Outcome("client_error"),
                    ![w].result =
                      OracleVerdict(w, call_openai(config, FALSE, Outcome("client_error"))).result]
  /\ UNCHANGED rules_cache
  /\ ThreadFrame

\* call_openai, the request and the parsing of its answer, and the metadata
\* check_command adds.
Request(w, outcome) ==
  /\ workers[w].pc = "request"
  /\ LET r == OracleVerdict(w, call_openai(config, TRUE, outcome))
     IN workers' = [workers EXCEPT ![w].pc = IF r.raised # "" THEN "raised" ELSE "done",
                                   ![w].outcome = outcome,
                                   ![w].result = r.result,
                                   ![w].exception = r.raised]
  /\ UNCHANGED <<rules_cache, ai_client>>
  /\ ThreadFrame

NextThreads ==
  \/ Construct
  \/ \E w \in Threads, cmd \in ThreadCommands : Begin(w, cmd)
  \/ \E w \in Threads : LoadCheck(w)
  \/ \E w \in Threads : LoadCached(w)
  \/ \E w \in Threads : LoadFile(w)
  \/ \E w \in Threads : LoadLen(w)
  \/ \E w \in Threads : LoadReturn(w)
  \/ \E w \in Threads : ClientCheck(w)
  \/ \E w \in Threads, built \in BOOLEAN : ClientMake(w, built)
  \/ \E w \in Threads, outcome \in ThreadOutcomes : Request(w, outcome)

SpecThreads == InitThreads /\ [][NextThreads]_vars

\* --------------------------------------------------------------- properties

\* The stage was invoked in the current call of check_command.
Ran(stage) == \E i \in 1..Len(calls) : calls[i] = stage

\* check_command has been called: main is inside it, or past it.
Called ==
  \/ pc \in {"sanitize", "validate", "rules", "oracle", "raised", "returned"}
  \/ pc = "exit" /\ exception # "re.error"

AllWhitespace(s) == \A i \in 1..Len(s) : s[i] \in Whitespace

\* C1: whenever validate_command reports the sanitized command unsafe,
\* check_command returns a verdict with action ERROR, and neither apply_rules
\* nor build_ai_prompt / call_openai is invoked in that invocation.
C1_GateFailureIsTerminal ==
  (Ran("validate_command") /\ ~security.is_safe) =>
    /\ result.action = "ERROR"
    /\ pc \in {"returned", "exit"}
    /\ calls = <<"sanitize_command", "validate_command">>
    /\ rules = YamlNone /\ rule_result = NoDecision
    /\ oracle = NoOracle /\ requests = 0 /\ ai_action = ""
    /\ exception = ""

\* An injection attempt was refused by the gate and main printed the error.
C1_Witness ==
  /\ pc = "exit"
  /\ Ran("validate_command")
  /\ ~security.is_safe
  /\ security.error[1] = "Command injection attempt detected: "
  /\ output.line = "ERROR: "

\* C2: a sanitized command that passes the basic checks and matches a
\* built-in dangerous pattern fails the gate with the dangerous-pattern
\* violation of the first such pattern, whatever blocked or injection pattern
\* it also matches, and the verdict is the ERROR of the security stage.
C2_DangerousScanFirst ==
  LET basic == _basic_validation(config, sanitized_command)
      d == FirstMatch(dangerous_patterns, sanitized_command)
  IN (Ran("validate_command") /\ ~basic.raised /\ basic.value /\ d # 0) =>
       /\ ~security.is_safe
       /\ security.error =
            <<"Dangerous command pattern detected: ", dangerous_patterns[d].pattern>>
       /\ result.action = "ERROR"
       /\ result.reason = "Security check failed"
       /\ result.message = <<"Security violation: ">> \o security.error
       /\ calls = <<"sanitize_command", "validate_command">>
       /\ requests = 0

\* A command that matches a dangerous, a blocked and an injection pattern
\* was refused.
C2_Witness ==
  /\ pc = "exit"
  /\ Ran("validate_command")
  /\ FirstMatch(dangerous_patterns, sanitized_command) # 0
  /\ FirstMatch(blocked_patterns, sanitized_command) # 0
  /\ FirstMatch(injection_patterns, sanitized_command) # 0
  /\ ~security.is_safe
  /\ security.error[1] = "Dangerous command pattern detected: "
  /\ output.line = "ERROR: "

\* apply_rules returned (it did not raise) for a list of rules.
RulesScanned ==
  /\ Ran("apply_rules")
  /\ exception \notin {"AttributeError", "TypeError"}
  /\ rules.kind = "list"

\* The rules of the loaded list that the sanitized command matches.
Matching == {i \in 1..Len(rules.items) : RuleMatches(rules.items[i], sanitized_command)}

\* A matching rule yields a decision: its replace template is one re.sub
\* accepts, or it has no replace field and has an error field.
Decides(rule, cmd) ==
  /\ RuleMatches(rule, cmd)
  /\ IF Has(rule, "replace") THEN ~TemplateRaises(rule.fields.replace)
     ELSE Has(rule, "error")

Deciding == {i \in Matching : Decides(rules.items[i], sanitized_command)}

\* C3 as stated: whenever two or more rules of the list match the command,
\* the outcome apply_rules returns (action, command or message, reason,
\* rule_pattern) is that of the first matching rule, and so is the verdict.
C3_FirstMatchingRuleWins ==
  (RulesScanned /\ Cardinality(Matching) >= 2) =>
    LET first == rules.items[MinOf(Matching)]
    IN /\ Get(rule_result, "rule_pattern", "") = first.fields.pattern
       /\ rule_result.action = IF Has(first, "replace") THEN "EXECUTE" ELSE "ERROR"
       /\ Has(first, "replace") =>
            rule_result.command =
              ReSub(ReCompile(first.fields.pattern).alts, first.fields.replace,
                    sanitized_command)
       /\ ~Has(first, "replace") =>
            rule_result.message = <<Get(first.fields, "error", "")>>
       /\ rule_result.reason =
            Get(first.fields, "reason",
                IF Has(first, "replace") THEN "Rule-based replacement"
                ELSE "Rule-based blocking")
       /\ result = rule_result

\* C3, amended: the outcome is that of the first matching rule that yields a
\* decision; matching rules that yield none are passed over, and NONE is
\* returned when no matching rule decides.  A decision is the verdict.
C3_FirstDecidingRuleWins ==
  RulesScanned =>
    IF Deciding = {} THEN rule_result = NoDecision
    ELSE /\ rule_result = RuleOutcome(rules.items[MinOf(Deciding)], sanitized_command)
         /\ result = rule_result
         /\ pc \in {"returned", "exit"}

\* Two rules matched; the first has neither replace nor error, and the
\* verdict is the block of the second.
C3_Witness ==
  /\ pc = "exit"
  /\ RulesScanned
  /\ Cardinality(Matching) >= 2
  /\ Deciding # {}
  /\ MinOf(Deciding) > MinOf(Matching)
  /\ result = RuleOutcome(rules.items[MinOf(Deciding)], sanitized_command)
  /\ output.line = "ERROR: "

\* The adapter got an answer from the oracle that is malformed for a reason
\* other than its action string.
MalformedAnswer ==
  \/ oracle.kind \in {"invalid_json", "no_choices", "empty_content", "non_object"}
  \/ oracle.kind = "object" /\ oracle.action = "non_string"

\* What call_openai has to give for a malformed answer.
AdapterFailsOpen ==
  /\ ai_action = "PASS"
  /\ result.action = "PASS"
  /\ exception = ""
  /\ pc \in {"returned", "exit"}

\* C4 as stated: for every malformed oracle response (invalid JSON, no
\* choices, empty content, JSON that is no object, a non-string action, or an
\* action string outside PASS/EXECUTE/ERROR) call_openai returns the action
\* PASS with a result whose action is PASS, and raises nothing.
C4_MalformedAnswerPasses ==
  (Ran("call_openai")
     /\ \/ MalformedAnswer
        \/ /\ oracle.kind = "object" /\ oracle.action = "string"
           /\ oracle.obj.action \notin ValidActions) =>
    AdapterFailsOpen

\* C4, amended: the same, for an action string that is outside
\* PASS/EXECUTE/ERROR after upper-casing.
C4_MalformedAfterUpperPasses ==
  (Ran("call_openai")
     /\ \/ MalformedAnswer
        \/ /\ oracle.kind = "object" /\ oracle.action = "string"
           /\ Upper(oracle.obj.action) \notin ValidActions) =>
    AdapterFailsOpen

\* The oracle answered with the action "allow" and the verdict was PASS.
C4_Witness ==
  /\ pc = "exit"
  /\ Ran("call_openai")
  /\ oracle = JsonObject("string", [action |-> "allow"])
  /\ ai_action = "PASS"
  /\ result.action = "PASS"
  /\ result.analysis_type = "ai"

\* C5: every value check_command returns has an action field whose value is
\* exactly one of PASS, EXECUTE, ERROR.
C5_VerdictActionWellFormed ==
  result # NoResult =>
    /\ "action" \in DOMAIN result
    /\ result.action \in ValidActions

\* C6: check_command never propagates an exception to its caller, and a fault
\* raised inside the security gate, the rule engine or the oracle stage
\* resolves to a PASS verdict.
C6_FaultsResolveToPass ==
  /\ pc = "raised" => exception = "KeyboardInterrupt"
  /\ exception \notin {"AttributeError", "TypeError"}
  /\ (Ran("validate_command") /\ ~security.is_safe
        /\ security.error[1] = "Validation error: ") =>
       result.action = "PASS"
  /\ (Ran("call_openai") /\ oracle.kind \in {"client_error", "transport_error"}) =>
       result.action = "PASS"

\* C7: sanitize_command is idempotent.
C7_SanitizeIdempotent ==
  Ran("sanitize_command") =>
    /\ sanitized_command = sanitize_command(command)
    /\ sanitize_command(sanitized_command) = sanitized_command

\* C8: a raw command that is not blank and whose sanitized form is empty or
\* blank gets the verdict PASS, not an ERROR of the security gate.
C8_BlankAfterSanitizePasses ==
  (result # NoResult /\ Ran("sanitize_command")
     /\ ~AllWhitespace(command) /\ AllWhitespace(sanitized_command)) =>
    result.action = "PASS"

\* C9: for a raw command that is empty or only whitespace, check_command
\* returns PASS with the reason 'Empty command' and invokes none of the
\* sanitizer, the security gate, the rule engine and the oracle.
C9_BlankCommandPasses ==
  (Called /\ AllWhitespace(command)) =>
    /\ result = Pass("Empty command")
    /\ pc \in {"returned", "exit"}
    /\ calls = <<>>
    /\ requests = 0
    /\ exception = ""
    /\ output \in {NoOutput, [line |-> "PASS"]}

\* A command of whitespace only was passed and main printed PASS.
C9_Witness ==
  /\ pc = "exit"
  /\ command # <<>>
  /\ AllWhitespace(command)
  /\ result = Pass("Empty command")
  /\ output = [line |-> "PASS"]

StageOrder ==
  <<"sanitize_command", "validate_command", "apply_rules", "build_ai_prompt",
    "call_openai">>

IsPrefix(p, q) == Len(p) <= Len(q) /\ \A i \in 1..Len(p) : p[i] = q[i]

\* C10: the stages run in the order sanitizer, security gate, rule engine,
\* oracle, each at most once per invocation; the oracle is invoked only when
\* the rule engine returned no decision, and an EXECUTE or ERROR of the rule
\* engine is returned as the verdict without a call of the oracle.
C10_StageOrder ==
  /\ IsPrefix(calls, StageOrder)
  /\ requests <= 1
  /\ (pc = "oracle" \/ Ran("build_ai_prompt") \/ Ran("call_openai") \/ requests > 0) =>
       /\ Ran("apply_rules")
       /\ rule_result = NoDecision
       /\ security.is_safe
  /\ (Ran("apply_rules") /\ rule_result.action \in {"EXECUTE", "ERROR"}) =>
       /\ result = rule_result
       /\ pc \in {"returned", "exit"}
       /\ ~Ran("build_ai_prompt") /\ ~Ran("call_openai")
       /\ oracle = NoOracle /\ requests = 0

\* A rule blocked the command and main printed the error without any call of
\* the oracle.
C10_Witness ==
  /\ pc = "exit"
  /\ calls = <<"sanitize_command", "validate_command", "apply_rules">>
  /\ rule_result.action = "ERROR"
  /\ result = rule_result
  /\ requests = 0
  /\ output.line = "ERROR: "

\* The first rule of the loaded list that the sanitized command matches.
FirstMatching == rules.items[MinOf(Matching)]

\* What C11 promises of the verdict: the EXECUTE of the rule stage, with the
\* matches of the pattern replaced by the template.
RewriteVerdict(rule) ==
  /\ pc \in {"returned", "exit"}
  /\ result.action = "EXECUTE"
  /\ result.command =
       ReSub(ReCompile(rule.fields.pattern).alts, rule.fields.replace, sanitized_command)
  /\ result.reason = Get(rule.fields, "reason", "Rule-based replacement")
  /\ result.rule_pattern = rule.fields.pattern
  /\ "analysis_type" \notin DOMAIN result
  /\ ~Ran("call_openai") /\ requests = 0

ValidAnswer ==
  /\ Ran("call_openai")
  /\ oracle.kind = "object"
  /\ oracle.action = "string"
  /\ oracle.obj.action \in ValidActions

\* C12: when the oracle answers with a JSON object whose action is PASS,
\* EXECUTE or ERROR, the verdict of check_command has that action, with the
\* command of the oracle for EXECUTE and the message of the oracle for ERROR.
C12_ValidAnswerIsVerdict ==
  ValidAnswer =>
    /\ pc \in {"returned", "exit"}
    /\ exception = ""
    /\ ai_action = oracle.obj.action
    /\ result.action = oracle.obj.action
    /\ "command" \in DOMAIN oracle.obj =>
         "command" \in DOMAIN result /\ result.command = oracle.obj.command
    /\ "message" \in DOMAIN oracle.obj =>
         "message" \in DOMAIN result /\ result.message = oracle.obj.message
    /\ pc = "exit" =>
         /\ output.line = CASE result.action = "PASS" -> "PASS"
                            [] result.action = "EXECUTE" -> "EXECUTE: "
                            [] result.action = "ERROR" -> "ERROR: "
         /\ (result.action = "EXECUTE" /\ "command" \in DOMAIN oracle.obj) =>
              output.command = oracle.obj.command
         /\ (result.action = "ERROR" /\ "message" \in DOMAIN oracle.obj) =>
              output.message = oracle.obj.message

\* The oracle answered {action ERROR, message 'no'} and the verdict was
\* Error('no').
C12_Witness ==
  /\ pc = "exit"
  /\ Ran("call_openai")
  /\ oracle = JsonObject("string", [action |-> "ERROR", message |-> <<"no">>])
  /\ result.action = "ERROR"
  /\ result.message = <<"no">>
  /\ output = [line |-> "ERROR: ", message |-> <<"no">>]

\* C13: every EXECUTE verdict check_command returns carries a command and
\* every ERROR verdict carries a message, also when it comes from the oracle.
C13_VerdictPayloadPresent ==
  result # NoResult =>
    /\ Get(result, "action", "") = "EXECUTE" => "command" \in DOMAIN result
    /\ Get(result, "action", "") = "ERROR" => "message" \in DOMAIN result

\* C14: with no API key configured, call_openai sends no request and returns
\* PASS with the reason 'AI unavailable', so a command that passes the gate
\* and gets no rule decision has a PASS verdict with that reason.
C14_NoKeyPassesUnavailable ==
  /\ (Ran("call_openai") /\ ~ConfigGet(config, "api_key")) =>
       /\ requests = 0
       /\ ~ai_client
       /\ oracle = NoOracle
       /\ ai_action = "PASS"
       /\ exception = ""
       /\ result.action = "PASS"
       /\ result.reason = "AI unavailable"
       /\ pc = "exit" => output = [line |-> "PASS"]
  /\ (~ConfigGet(config, "api_key") /\ Ran("apply_rules") /\ security.is_safe
        /\ exception = "" /\ rule_result = NoDecision /\ pc \in {"returned", "exit"}) =>
       /\ Ran("call_openai")
       /\ result.action = "PASS"
       /\ result.reason = "AI unavailable"

\* Without a key, a safe command that matched no rule was passed as
\* 'AI unavailable'.
C14_Witness ==
  /\ pc = "exit"
  /\ ~ConfigGet(config, "api_key")
  /\ security.is_safe
  /\ rules = YamlList(<<ErrorRule>>)
  /\ rule_result = NoDecision
  /\ Ran("call_openai")
  /\ requests = 0
  /\ result.reason = "AI unavailable"
  /\ output = [line |-> "PASS"]

\* The stage that produced the verdict of the current call.
DecidingStage ==
  IF ~Ran("sanitize_command") THEN "default"
  ELSE IF ~Ran("apply_rules") THEN "security"
  ELSE IF ~Ran("call_openai") THEN "rule"
  ELSE IF requests > 0 /\ oracle.kind = "object" THEN "ai"
  ELSE "default"

\* C15: every verdict check_command returns names the stage that decided it
\* (security, rule, ai or default) and carries the original and the sanitized
\* command, and the stage it names is the one that produced it.
C15_VerdictCarriesProvenance ==
  result # NoResult =>
    /\ "analysis_type" \in DOMAIN result
    /\ "original_command" \in DOMAIN result
    /\ "sanitized_command" \in DOMAIN result
    /\ result.analysis_type = DecidingStage
    /\ result.original_command = command
    /\ result.sanitized_command = sanitized_command

\* The rules file was absent or could not be read or parsed (nothing was
\* loaded), or its document is no list of rules.
RulesFileUnusable ==
  \/ rules = YamlList(<<>>) /\ rules_cache = YamlNone
  \/ rules_cache.kind \in {"dict", "int"}

\* C16: a missing, unreadable or malformed rules file never aborts
\* check_command: the rule stage behaves as an empty rule list, returns no
\* decision, and the pipeline continues to the oracle stage.
C16_UnusableRulesFileDegrades ==
  (Ran("apply_rules") /\ RulesFileUnusable) =>
    /\ exception \notin {"AttributeError", "TypeError"}
    /\ rule_result = NoDecision
    /\ pc \in {"oracle", "raised", "returned", "exit"}
    /\ pc \in {"returned", "exit"} => Ran("call_openai")

\* The loaded rule list without the rules whose pattern fails to compile.
WithoutBadPatterns == SelectSeq(rules.items, LAMBDA rule : ~BadPattern(rule))

\* C17: a rule whose pattern fails to compile is skipped: apply_rules raises
\* nothing for it and returns what it returns for the rule list without that
\* rule, so later rules are still evaluated.
C17_BadPatternSkipped ==
  (Ran("apply_rules") /\ rules.kind = "list"
     /\ \E i \in 1..Len(rules.items) : BadPattern(rules.items[i])) =>
    LET expected == apply_rules(YamlList(WithoutBadPatterns), sanitized_command)
    IN /\ rule_result = expected.result
       /\ expected.raised = "" => exception \notin {"AttributeError", "TypeError", "re.error"}
       /\ expected.raised # "" => exception = expected.raised
       /\ RuleDecided(expected.result.action) => result = expected.result

\* A rule with the pattern '(' stood before a blocking rule, and the
\* blocking rule decided.
C17_Witness ==
  /\ pc = "exit"
  /\ rules = YamlList(<<BadRegexRule, ErrorRule>>)
  /\ exception = ""
  /\ result.action = "ERROR"
  /\ result.rule_pattern = ErrorRule.fields.pattern
  /\ output.line = "ERROR: "

\* The configured security.max_command_length, when it is a number.
MaxLengthIs(n) ==
  /\ config.max_command_length.type = "int"
  /\ config.max_command_length.value = n

BasicChecksFailed ==
  /\ ~security.is_safe
  /\ security.error = <<"Command failed basic validation checks", "">>

\* C18: a sanitized command longer than security.max_command_length fails
\* the gate and check_command returns an ERROR verdict; a sanitized command
\* of exactly that length is not rejected for its length.
C18_LengthLimit ==
  Ran("validate_command") =>
    /\ (config.max_command_length.type = "int"
          /\ Len(sanitized_command) > config.max_command_length.value) =>
         /\ BasicChecksFailed
         /\ result.action = "ERROR"
         /\ result.reason = "Security check failed"
         /\ calls = <<"sanitize_command", "validate_command">>
    /\ (MaxLengthIs(Len(sanitized_command))
          /\ ~AllWhitespace(sanitized_command)
          /\ ~Contains(sanitized_command, NUL)
          /\ (config.allow_multiline
                \/ ~(Contains(sanitized_command, LF) \/ Contains(sanitized_command, CR)))) =>
         ~BasicChecksFailed

\* A command one character longer than the configured maximum was refused.
C18_Witness ==
  /\ pc = "exit"
  /\ MaxLengthIs(SmallMaxLength)
  /\ Len(sanitized_command) = SmallMaxLength + 1
  /\ BasicChecksFailed
  /\ output.line = "ERROR: "

\* A command of exactly the configured maximum length passed the gate.
C18_AtLimitPasses ==
  /\ Ran("validate_command")
  /\ MaxLengthIs(SmallMaxLength)
  /\ Len(sanitized_command) = SmallMaxLength
  /\ security.is_safe

\* validate_command has returned and no later stage has run yet.
GateReturned == calls = <<"sanitize_command", "validate_command">>

\* validate_command with an empty list of suspicious patterns: the basic
\* checks, the dangerous scan and the injection scan.
GateWithoutSuspicious ==
  LET basic == _basic_validation(config, sanitized_command)
      danger_result == _check_dangerous_patterns(blocked_patterns, sanitized_command)
      injection_result == _check_command_injection(sanitized_command)
  IN IF basic.raised THEN Unsafe("Validation error: ", "TypeError")
     ELSE IF ~basic.value THEN Unsafe("Command failed basic validation checks", "")
     ELSE IF ~danger_result.is_safe THEN danger_result
     ELSE injection_result

\* C19: matching a suspicious pattern never changes the result of the gate:
\* validate_command returns what it would return with an empty list of
\* suspicious patterns, and the injection scan still runs after the
\* suspicious scan.
C19_SuspiciousIsAdvisory ==
  GateReturned => security = GateWithoutSuspicious

\* A command that matches a suspicious pattern and an injection pattern was
\* refused as an injection attempt.
C19_Witness ==
  /\ pc = "exit"
  /\ Ran("validate_command")
  /\ FirstMatch(suspicious_patterns, sanitized_command) # 0
  /\ ~security.is_safe
  /\ security.error[1] = "Command injection attempt detected: "

\* A command that matches a suspicious pattern and nothing else passed the
\* gate.
C19_SuspiciousPasses ==
  /\ Ran("apply_rules")
  /\ FirstMatch(suspicious_patterns, sanitized_command) # 0
  /\ security.is_safe

\* C20: the output of sanitize_command contains no character of the ranges
\* 0x00-0x08, 0x0B, 0x0C, 0x0E-0x1F, 0x7F and has no leading or trailing
\* whitespace.
C20_SanitizedIsClean ==
  Ran("sanitize_command") =>
    /\ \A i \in 1..Len(sanitized_command) : sanitized_command[i] \notin ControlClass
    /\ sanitized_command # <<>> =>
         /\ sanitized_command[1] \notin Whitespace
         /\ sanitized_command[Len(sanitized_command)] \notin Whitespace

\* call_openai ran and failed open: there was no client, or the request or
\* the parsing of its answer failed, or the answer had no action or one
\* outside PASS, EXECUTE, ERROR.
FailedOpen ==
  /\ Ran("call_openai")
  /\ exception = ""
  /\ \/ requests = 0
     \/ oracle.kind \in {"transport_error", "no_choices", "empty_content",
                         "invalid_json", "non_object"}
     \/ /\ oracle.kind = "object"
        /\ \/ oracle.action \in {"absent", "non_string"}
           \/ oracle.action = "string" /\ Upper(oracle.obj.action) \notin ValidActions

\* C21: every PASS with which call_openai fails open (no client, no choices,
\* empty content, JSON that cannot be parsed, a missing action, an action
\* outside PASS/EXECUTE/ERROR, a transport error) carries a reason field.
C21_FailOpenHasReason ==
  FailedOpen =>
    /\ "reason" \in DOMAIN result
    /\ result.reason # ""

\* C23: when the request to the oracle is interrupted while it is in flight,
\* call_openai still returns PASS with a PASS result; the interruption does
\* not leave call_openai and check_command as an exception.
C23_InterruptReturnsPass ==
  (Ran("call_openai") /\ oracle.kind = "interrupt") =>
    /\ ai_action = "PASS"
    /\ result.action = "PASS"
    /\ exception = ""
    /\ pc \in {"returned", "exit"}

HasLineBreak(s) == Contains(s, LF) \/ Contains(s, CR)

\* C25: with security.allow_multiline false, every sanitized command that
\* contains a line feed or a carriage return fails the gate and the verdict
\* is the ERROR of the security stage; with allow_multiline true, a command
\* with a line break fails the basic checks only for being blank, too long or
\* holding a NUL.
C25_MultilineCheck ==
  (Ran("validate_command") /\ HasLineBreak(sanitized_command)) =>
    IF ~ConfigGet(config, "allow_multiline")
      THEN /\ ~security.is_safe
           /\ result.action = "ERROR"
           /\ result.reason = "Security check failed"
           /\ calls = <<"sanitize_command", "validate_command">>
    ELSE BasicChecksFailed =>
           \/ AllWhitespace(sanitized_command)
           \/ Len(sanitized_command) > config.max_command_length.value
           \/ Contains(sanitized_command, NUL)

\* Under the default configuration a command of two lines was refused by the
\* basic checks.
C25_Witness ==
  /\ pc = "exit"
  /\ config = DefaultConfig
  /\ HasLineBreak(sanitized_command)
  /\ ~AllWhitespace(sanitized_command)
  /\ BasicChecksFailed
  /\ output.line = "ERROR: "

\* With allow_multiline true a command of two lines passed the gate.
C25_MultilinePasses ==
  /\ Ran("apply_rules")
  /\ ConfigGet(config, "allow_multiline")
  /\ HasLineBreak(sanitized_command)
  /\ security.is_safe

\* The loaded rule list without the rules that have no effect.
WithoutNoEffect == SelectSeq(rules.items, LAMBDA rule : ~NoEffect(rule))

\* C26: a rule with a missing or empty pattern, or with neither a replace nor
\* an error field, yields no decision and does not end the scan: apply_rules
\* returns what it returns for the rule list without such rules, so a later
\* rule still decides and NONE is returned only when none does.
C26_NoEffectRuleSkipped ==
  (Ran("apply_rules") /\ rules.kind = "list"
     /\ \E i \in 1..Len(rules.items) : NoEffect(rules.items[i])) =>
    LET expected == apply_rules(YamlList(WithoutNoEffect), sanitized_command)
    IN /\ rule_result = expected.result
       /\ expected.raised = "" => exception \notin {"AttributeError", "TypeError", "re.error"}
       /\ expected.raised # "" => exception = expected.raised
       /\ RuleDecided(expected.result.action) => result = expected.result
       /\ (expected.raised = "" /\ ~RuleDecided(expected.result.action)) =>
            /\ rule_result = NoDecision
            /\ pc = "oracle" \/ Ran("call_openai")

\* A rule with an empty pattern stood before a blocking rule, and the
\* blocking rule decided.
C26_Witness ==
  /\ pc = "exit"
  /\ rules = YamlList(<<EmptyPatternRule, ErrorRule>>)
  /\ exception = ""
  /\ result = RuleOutcome(ErrorRule, sanitized_command)
  /\ output.line = "ERROR: "

\* A matching rule with neither replace nor error was the only rule, and the
\* command went on to the oracle.
C26_BareRuleGoesOn ==
  /\ rules = YamlList(<<BareRule>>)
  /\ RuleMatches(BareRule, sanitized_command)
  /\ rule_result = NoDecision
  /\ Ran("call_openai")

\* validate_command would refuse the command.
GateRejects(cmd) == ~validate_command(config, blocked_patterns, cmd).is_safe

\* The command the first deciding rule of the loaded list rewrites the
\* sanitized command to.
Rewritten ==
  LET rule == rules.items[MinOf(Deciding)]
  IN ReSub(ReCompile(rule.fields.pattern).alts, rule.fields.replace, sanitized_command)

\* C27: the command of an EXECUTE verdict is not passed through the security
\* gate: validate_command runs once, on the sanitized input, and a command
\* that a rule's substitution produced or the oracle supplied is returned as
\* it is also when validate_command would refuse it.
C27_ExecuteCommandNotGated ==
  /\ (result # NoResult /\ Get(result, "action", "") = "EXECUTE") =>
       /\ IsPrefix(calls, StageOrder)
       /\ security.is_safe
  /\ (RulesScanned /\ Deciding # {} /\ Has(rules.items[MinOf(Deciding)], "replace")
        /\ GateRejects(Rewritten)) =>
       /\ result.action = "EXECUTE"
       /\ result.command = Rewritten
       /\ pc = "exit" => output = [line |-> "EXECUTE: ", command |-> Rewritten]
  /\ (ValidAnswer /\ oracle.obj.action = "EXECUTE" /\ "command" \in DOMAIN oracle.obj
        /\ GateRejects(oracle.obj.command)) =>
       /\ result.action = "EXECUTE"
       /\ result.command = oracle.obj.command
       /\ pc = "exit" => output = [line |-> "EXECUTE: ", command |-> oracle.obj.command]

\* The rule foo -> 'rm -rf /' rewrote 'run foo now' and main printed the
\* rewritten command, which matches a dangerous pattern.
C27_Witness ==
  /\ pc = "exit"
  /\ rules = YamlList(<<RmRule>>)
  /\ result.action = "EXECUTE"
  /\ result.command =
       Str(<<"r", "u", "n", " ", "r", "m", " ", "-", "r", "f", " ", "/", " ", "n", "o", "w">>)
  /\ GateRejects(result.command)
  /\ FirstMatch(dangerous_patterns, result.command) # 0
  /\ output = [line |-> "EXECUTE: ", command |-> result.command]

\* The oracle supplied 'rm -rf /' and main printed it.
C27_OracleWitness ==
  /\ pc = "exit"
  /\ ValidAnswer
  /\ result.action = "EXECUTE"
  /\ "command" \in DOMAIN result
  /\ GateRejects(result.command)
  /\ output = [line |-> "EXECUTE: ", command |-> result.command]

\* A check of the security gate raises for the sanitized command: the length
\* comparison with a max_command_length that is no number.
GateRaises ==
  /\ Ran("validate_command")
  /\ ~IsBlank(sanitized_command)
  /\ config.max_command_length.type # "int"

\* C29: an exception raised inside validate_command makes the gate return
\* (False, 'Validation error: ...'), and check_command returns the ERROR of
\* the security stage for that command, never PASS.
C29_GateFailsClosed ==
  GateRaises =>
    /\ security = Unsafe("Validation error: ", "TypeError")
    /\ result.action = "ERROR"
    /\ result.message = <<"Security violation: ", "Validation error: ", "TypeError">>
    /\ result.reason = "Security check failed"
    /\ calls = <<"sanitize_command", "validate_command">>
    /\ exception = ""
    /\ pc \in {"returned", "exit"}
    /\ pc = "exit" => output = [line |-> "ERROR: ", message |-> result.message]

\* With max_command_length set to a string, 'ls -la' was refused with a
\* validation error.
C29_Witness ==
  /\ pc = "exit"
  /\ GateRaises
  /\ sanitized_command = Str(<<"l", "s", " ", "-", "l", "a">>)
  /\ security.error[1] = "Validation error: "
  /\ output.line = "ERROR: "

\* A configured security.blocked_patterns entry is no regular expression.
BlockedPatternInvalid ==
  \E i \in 1..Len(config.blocked_patterns) : ~ReCompile(config.blocked_patterns[i]).ok

\* C30: when the construction of the CommandChecker raises, as it does for a
\* configured blocked pattern that is no regular expression, main prints PASS
\* and exits whatever the command is: check_command is never called, so no
\* stage runs and the security gate sees no command.
C30_ConstructorFailureFailsOpen ==
  (BlockedPatternInvalid /\ pc # "start") =>
    /\ exception = "re.error"
    /\ pc \in {"ctor_raised", "exit"}
    /\ blocked_patterns = <<>>
    /\ calls = <<>>
    /\ command = <<>>
    /\ security = NotChecked
    /\ result = NoResult
    /\ requests = 0
    /\ pc = "exit" => output = [line |-> "PASS"]

\* main was started with 'rm -rf /' under a configuration with the blocked
\* pattern '(' and printed PASS.
C30_Witness ==
  /\ pc = "exit"
  /\ BlockedPatternInvalid
  /\ argv = Str(<<"r", "m", " ", "-", "r", "f", " ", "/">>)
  /\ FirstMatch(dangerous_patterns, sanitize_command(argv)) # 0
  /\ exception = "re.error"
  /\ output = [line |-> "PASS"]

LoadFailed ==
  \/ rules_file.state \in {"missing", "unreadable"}
  \/ rules_file.state = "ok" /\ rules_file.doc.kind = "int"

\* C28: load_rules caches only a successful load.  A call that finds a cached
\* value returns it without looking for the file; a call whose load succeeds
\* returns and caches the loaded document; a call whose load fails (missing
\* file, unreadable file, exception while loading) returns the empty list and
\* caches nothing, so that the next call looks for the file again.
C28_OnlySuccessfulLoadCached ==
  Ran("apply_rules") =>
    /\ rules_file = NotRead => rules_cache # YamlNone /\ rules = rules_cache
    /\ LoadFailed => rules = YamlList(<<>>) /\ rules_cache = YamlNone
    /\ (rules_file.state = "ok" /\ ~LoadFailed) =>
         /\ rules = (IF rules_file.doc = YamlNone THEN YamlList(<<>>) ELSE rules_file.doc)
         /\ rules_cache = rules

\* The verdict check_command gives thread w when no other thread uses the
\* CommandChecker: nothing is cached and there is no client yet.
Alone(w) ==
  check_command(config, blocked_patterns, YamlNone, FALSE, workers[w].command,
                rules_file, workers[w].outcome)

\* C24: when several threads call check_command on one CommandChecker, each
\* gets the verdict (or the exception) it would get if it were the only
\* caller, and the rule list each scans is the one a complete load_rules
\* returns for the rules file.
C24_ConcurrentAsAlone ==
  \A w \in Threads :
    /\ workers[w].rules # YamlNone =>
         workers[w].rules = load_rules(YamlNone, rules_file).rules
    /\ workers[w].pc \in {"done", "raised"} =>
         /\ workers[w].result = Alone(w).result
         /\ workers[w].exception = Alone(w).raised

\* The same for a rules file that is absent or holds a list or a mapping.
C24_HoldsWithoutNumberDocument ==
  rules_file.doc.kind # "int" => C24_ConcurrentAsAlone

\* Two threads checked the same command with a cached rule list and both got
\* the block of the rule.
C24_BothBlocked ==
  /\ \A w \in Threads :
       /\ workers[w].pc = "done"
       /\ workers[w].result = RuleOutcome(ErrorRule, Str(<<"a">>))
  /\ rules_cache = YamlList(<<ErrorRule>>)

\* The function check_command agrees with the steps of main.
CheckCommandAgrees ==
  (pc \in {"returned", "raised"} \/ (pc = "exit" /\ exception # "re.error")) =>
    LET r == check_command(config, blocked_patterns, YamlNone, FALSE, command,
                           rules_file, oracle)
    IN /\ result = r.result
       /\ exception = r.raised

=============================================================================
